---- MODULE Spec2Model ----
(***************************************************************************)
(* Model of the SNS review pipeline of datepalmbay-api:                    *)
(*   - services/snsReviewCollector.js  (collection runs, dedup, cap)       *)
(*   - services/youtube.js, services/instagram.js (hashtags, scoring)      *)
(*   - server.js admin endpoints on the review collection                  *)
(*   - the Claude review summarizer (getSummary resolution chain,          *)
(*     analysis cache, product insights, feedback history)                 *)
(* Texts are sequences of one-character strings; external ids are numbers. *)
(***************************************************************************)
EXTENDS Integers, Sequences, FiniteSets, TLC

VARIABLES
  snsReviews,      \* server.js: the live review array shared with the collector
  refsSet,         \* collector: snsReviewsRef/productsRef are non-null
  nextReviewId,    \* collector: module-level id counter
  runs,            \* collector: the triggerCollection calls in flight, per slot
  lastRun,         \* history: per platform, what the last finished run saw
  saveCalls,       \* number of saveData() invocations made by the last step
  http,            \* server.js: the status code the last step answered with (0: none)
  started,         \* number of triggerCollection calls so far (bounded)
  adminOps,        \* number of admin endpoint calls so far (bounded)
  initialized,     \* summarizer: initialize(refs) has run
  claudeClient,    \* summarizer: anthropicClient !== null
  aiProvider,      \* summarizer: AI_PROVIDER
  onSave,          \* summarizer: saveCallback !== null
  productInsights, \* summarizer: productInsightsRef (array)
  aiFeedbackHistory, \* summarizer: aiFeedbackHistoryRef (array)
  overrides,       \* summarizer: snsReviewOverridesRef (array)
  analysisCache,   \* summarizer: Map productCode -> cache entry
  now,             \* Date.now(), in milliseconds
  call,            \* summarizer: the getSummary/triggerReanalysis call in flight
  ret,             \* summarizer: what the last finished call returned
  aiCalls,         \* history: number of anthropicClient.messages.create calls
  hist,            \* history: facts about the last finished summarizer call
  fbCount,         \* history: recordFeedback calls accepted so far, per product
  calls,           \* number of summarizer calls so far (bounded)
  probe,           \* the last application of a pure function: its inputs and result
  saver            \* server: _saveTimer and the shutdown in progress

collectorVars == <<snsReviews, refsSet, nextReviewId, runs, lastRun, http, started, adminOps>>
collectorVars_noHttp == <<snsReviews, refsSet, nextReviewId, runs, lastRun, started, adminOps>>
summarizerVars == <<initialized, claudeClient, aiProvider, onSave, productInsights,
                    aiFeedbackHistory, overrides, analysisCache, now, call, ret,
                    aiCalls, hist, fbCount, calls>>
analyzerVars == <<summarizerVars, probe, saver>>
vars == <<collectorVars, saveCalls, analyzerVars>>

-----------------------------------------------------------------------------
(* Bounds of the model *)
MaxRuns == 2
MaxAdminOps == 1
MaxCalls == 2
MaxTicks == 2
MaxFeedback == 11
MaxOtherFeedback == 2
MaxTags == 4
MaxBatch == 3
Slices == 5
MaxStarts == 2

(* Program constants *)
MAX_REVIEWS_PER_PRODUCT == 50
INITIAL_NEXT_REVIEW_ID == 100

-----------------------------------------------------------------------------
(* Text helpers: String.prototype.toLowerCase / includes / trim *)

LowerChar(c) ==
  CASE c = "A" -> "a" [] c = "C" -> "c" [] c = "D" -> "d" [] c = "G" -> "g"
    [] c = "O" -> "o" [] c = "P" -> "p" [] OTHER -> c

toLowerCase(t) == [i \in 1..Len(t) |-> LowerChar(t[i])]

includes(t, p) ==
  \E i \in 0..(Len(t) - Len(p)) : \A j \in 1..Len(p) : t[i + j] = p[j]

RECURSIVE trimLeft(_)
trimLeft(t) == IF Len(t) > 0 /\ t[1] = " " THEN trimLeft(Tail(t)) ELSE t

RECURSIVE trimRight(_)
trimRight(t) ==
  IF Len(t) > 0 /\ t[Len(t)] = " " THEN trimRight(SubSeq(t, 1, Len(t) - 1)) ELSE t

trim(t) == trimRight(trimLeft(t))

(* Math.round(num / den * 100) for den > 0: round half up *)
RoundPercent(num, den) == (200 * num + den) \div (2 * den)

Max(a, b) == IF a >= b THEN a ELSE b
Min(a, b) == IF a <= b THEN a ELSE b

RECURSIVE MaxId(_)
MaxId(reviews) ==
  IF reviews = <<>> THEN 0 ELSE Max(reviews[1].id, MaxId(Tail(reviews)))

-----------------------------------------------------------------------------
(* The catalog (productsRef). detailInfo is the base64 blob: absent, or    *)
(* carrying the decoded html.                                              *)

Products == <<
  [productCode |-> "P1", productName |-> <<"G","l","o">>, productSaleStatus |-> TRUE,
   detailInfo |-> [present |-> TRUE, html |-> <<"<","p",">","#","c","a"," ","#","p","d","<">>]],
  [productCode |-> "P2", productName |-> <<" ","D","e","w">>, productSaleStatus |-> TRUE,
   detailInfo |-> [present |-> FALSE, html |-> <<>>]],
  [productCode |-> "P3", productName |-> <<"O","l","d">>, productSaleStatus |-> FALSE,
   detailInfo |-> [present |-> TRUE, html |-> <<"#","c","a">>]]
>>

ProductCodes == {Products[i].productCode : i \in 1..Len(Products)}

(* productsRef.filter(p => p.productSaleStatus === true) *)
activeProducts == SelectSeq(Products, LAMBDA p : p.productSaleStatus = TRUE)

TagChars == {"a","c","d","p","A","C","D","P","0","1","_"}

RECURSIVE TagEnd(_, _)
TagEnd(t, i) == IF i + 1 <= Len(t) /\ t[i + 1] \in TagChars THEN TagEnd(t, i + 1) ELSE i

(* html.match(/#([a-zA-Z0-9가-힣_]+)/g) with the leading # removed *)
RECURSIVE MatchHashtags(_, _)
MatchHashtags(t, i) ==
  IF i > Len(t) THEN <<>>
  ELSE IF t[i] = "#" /\ i + 1 <= Len(t) /\ t[i + 1] \in TagChars
       THEN <<SubSeq(t, i + 1, TagEnd(t, i + 1))>> \o MatchHashtags(t, TagEnd(t, i + 1) + 1)
       ELSE MatchHashtags(t, i + 1)

(* [...new Set(list)]: first occurrence kept, compared exactly *)
RECURSIVE SetOrder(_)
SetOrder(s) ==
  IF s = <<>> THEN <<>>
  ELSE LET rest == SetOrder(SubSeq(s, 1, Len(s) - 1))
           x == s[Len(s)]
       IN IF \E i \in 1..Len(rest) : rest[i] = x THEN rest ELSE Append(rest, x)

extractHashtagsFromProduct(product) ==
  IF ~product.detailInfo.present THEN <<>>
  ELSE SetOrder(MatchHashtags(product.detailInfo.html, 1))

-----------------------------------------------------------------------------
(* What the search adapters return for one product: a list of candidates,  *)
(* or an exception escaping the adapter.                                   *)

Cand(id, title) == [extId |-> id, title |-> title, description |-> <<>>]

TxtOne  == <<"C","a"," ","r","e","v","i","e","w">>   \* one of P1's two hashtags
TxtBoth == <<"c","a"," ","p","d">>                   \* both of P1's hashtags
TxtName == <<"m","y"," ","d","e","w"," ","x">>       \* P2's name, lower case
TxtNone == <<"x","y">>                               \* nothing
TxtShared == <<"c","a"," ","d","e","w">>             \* a hashtag of P1 and P2's name

BulkLen == MAX_REVIEWS_PER_PRODUCT + 1
Bulk == [i \in 1..BulkLen |-> Cand(100 + i, TxtBoth)]

Feeds == <<
  [err |-> FALSE, items |-> <<>>],
  [err |-> FALSE, items |-> <<Cand(1, TxtOne), Cand(2, TxtNone), Cand(1, TxtOne)>>],
  [err |-> FALSE, items |-> <<Cand(3, TxtName), Cand(1, TxtBoth)>>],
  [err |-> FALSE, items |-> Bulk],
  [err |-> TRUE,  items |-> <<>>],
  [err |-> FALSE, items |-> <<Cand(4, TxtShared)>>]
>>

FeedIds == 1..Len(Feeds)

(* the results a search for the product at hand can resolve with; the     *)
(* 51-candidate list only where wide is set                                *)
FeedsFor(run, wide) ==
  IF run.phase \notin {"yt", "ig"} THEN {}
  ELSE IF activeProducts[run.idx].productCode = "P1"
       THEN IF run.phase = "yt" THEN (IF wide THEN {2, 4} ELSE {1, 2}) ELSE {2}
       ELSE IF run.phase = "yt" THEN {3, 5} ELSE {3}

(* the results of a search that may fail for either product *)
FeedsWithFailure(run) ==
  IF run.phase \notin {"yt", "ig"} THEN {}
  ELSE IF activeProducts[run.idx].productCode = "P1" THEN {2, 5} ELSE {3, 5}

-----------------------------------------------------------------------------
(* Collector: the synchronous body of the per-candidate loop               *)

(* the check with the platform test of the YouTube loop copied everywhere *)
Exists_YouTubeOnly(reviews, platform, extId) ==
  \E i \in 1..Len(reviews) : reviews[i].platform = "YOUTUBE" /\ reviews[i].externalId = extId

(* the check reading a field the stored reviews do not have *)
Exists_NeverFound(reviews, platform, extId) ==
  \E i \in 1..Len(reviews) : reviews[i].platform = platform /\ reviews[i].id = 0 - extId

(* the check passing over the reviews that still await moderation *)
Exists_Moderated(reviews, platform, extId) ==
  \E i \in 1..Len(reviews) :
    reviews[i].platform = platform /\ reviews[i].externalId = extId /\ reviews[i].status # "PENDING"

(* snsReviewsRef.some(r => r.platform === P && r.externalId === id) *)
Exists(reviews, platform, extId) ==
  \E i \in 1..Len(reviews) : reviews[i].platform = platform /\ reviews[i].externalId = extId

(* the review stored as already approved *)
NewReview_Approved(id, platform, extId, status, productCode, score) ==
  [id |-> id, platform |-> platform, externalId |-> extId, status |-> "APPROVED",
   matchedProducts |-> <<[productCode |-> productCode, matchScore |-> score]>>]

NewReview(id, platform, extId, status, productCode, score) ==
  [id |-> id, platform |-> platform, externalId |-> extId, status |-> status,
   matchedProducts |-> <<[productCode |-> productCode, matchScore |-> score]>>]

(* the overlap score cut off instead of rounded *)
YouTubeMatch_Floor(video, product, hashtags) ==
  LET searchText == toLowerCase(video.title \o <<" ">> \o video.description)
      k == Cardinality({i \in 1..Len(hashtags) : includes(searchText, toLowerCase(hashtags[i]))})
  IN IF Len(hashtags) > 0 /\ k > 0
     THEN [isMatched |-> TRUE, matchScore |-> (100 * k) \div Len(hashtags)]
     ELSE IF includes(searchText, toLowerCase(trim(product.productName)))
          THEN [isMatched |-> TRUE, matchScore |-> 80]
          ELSE [isMatched |-> FALSE, matchScore |-> 0]

(* snsReviewCollector.js:80-105: {matched, score} of a video for a product *)
YouTubeMatch(video, product, hashtags) ==
  LET searchText == toLowerCase(video.title \o <<" ">> \o video.description)
      productNameLower == toLowerCase(trim(product.productName))
      matched == {i \in 1..Len(hashtags) : includes(searchText, toLowerCase(hashtags[i]))}
      k == Cardinality(matched)
  IN IF Len(hashtags) > 0 /\ k > 0
     THEN [isMatched |-> TRUE, matchScore |-> RoundPercent(k, Len(hashtags))]
     ELSE IF includes(searchText, productNameLower)
          THEN [isMatched |-> TRUE, matchScore |-> 80]
          ELSE [isMatched |-> FALSE, matchScore |-> 0]

ReviewKeywords == {
  <<"ri","byu">>, <<"r","e","v","i","e","w">>, <<"hu","gi">>, <<"chu","cheon">>,
  <<"r","e","c","o","m","m","e","n","d">>, <<"jo","a","yo">>, <<"l","o","v","e">>,
  <<"a","m","a","z","i","n","g">>, <<"b","e","s","t">> }

RECURSIVE stripSpaces(_)
stripSpaces(t) ==
  IF t = <<>> THEN <<>>
  ELSE IF t[1] = " " THEN stripSpaces(Tail(t)) ELSE <<t[1]>> \o stripSpaces(Tail(t))

(* the score with the hashtag part left without its ceiling *)
calculateMatchScore_NoCeiling(post, product, hashtags) ==
  LET caption == toLowerCase(post.description)
      matched == {i \in 1..Len(hashtags) : includes(caption, toLowerCase(hashtags[i]))}
  IN Cardinality(matched) * 20
     + (IF includes(caption, stripSpaces(toLowerCase(product.productName))) THEN 30 ELSE 0)
     + (IF \E kw \in ReviewKeywords : includes(caption, toLowerCase(kw)) THEN 10 ELSE 0)

(* instagram.js calculateMatchScore *)
calculateMatchScore(post, product, hashtags) ==
  LET caption == toLowerCase(post.description)
      matched == {i \in 1..Len(hashtags) :
                    \/ includes(caption, <<"#">> \o toLowerCase(hashtags[i]))
                    \/ includes(caption, toLowerCase(hashtags[i]))}
      productNameLower == stripSpaces(toLowerCase(product.productName))
  IN Min(Cardinality(matched) * 20, 60)
     + (IF includes(caption, productNameLower) THEN 30 ELSE 0)
     + (IF \E kw \in ReviewKeywords : includes(caption, toLowerCase(kw)) THEN 10 ELSE 0)

(* the decision with the Instagram threshold made strict *)
Decide_Above20(platform, cand, product, hashtags) ==
  IF platform = "YOUTUBE"
  THEN YouTubeMatch(cand, product, hashtags)
  ELSE LET s == calculateMatchScore([cand EXCEPT !.description = cand.title], product, hashtags)
       IN [isMatched |-> s > 20, matchScore |-> s]

(* the decision of one loop iteration: accepted or not, and with which score *)
Decide(platform, cand, product, hashtags) ==
  IF platform = "YOUTUBE"
  THEN YouTubeMatch(cand, product, hashtags)
  ELSE LET s == calculateMatchScore([cand EXCEPT !.description = cand.title], product, hashtags)
       IN [isMatched |-> s >= 20, matchScore |-> s]

(* the loop adding the product at hand to a post that is already stored *)
RECURSIVE CandidateLoop_Merging(_, _, _, _, _)
CandidateLoop_Merging(platform, cands, product, hashtags, st) ==
  IF cands = <<>> THEN st
  ELSE IF st.productCollectedCount >= MAX_REVIEWS_PER_PRODUCT
       THEN [st EXCEPT !.capped = TRUE]
       ELSE LET c == cands[1]
                d == Decide(platform, c, product, hashtags)
                same(rv) == rv.platform = platform /\ rv.externalId = c.extId
                st2 == IF ~d.isMatched THEN st
                       ELSE IF Exists(st.reviews, platform, c.extId)
                       THEN [st EXCEPT !.reviews =
                               [i \in 1..Len(st.reviews) |->
                                  IF same(st.reviews[i])
                                  THEN [st.reviews[i] EXCEPT !.matchedProducts =
                                          Append(@, [productCode |-> product.productCode,
                                                     matchScore |-> d.matchScore])]
                                  ELSE st.reviews[i]]]
                       ELSE [st EXCEPT
                               !.reviews = Append(st.reviews,
                                  NewReview(st.nextReviewId, platform, c.extId, "PENDING",
                                            product.productCode, d.matchScore)),
                               !.nextReviewId = st.nextReviewId + 1,
                               !.productCollectedCount = st.productCollectedCount + 1,
                               !.totalCollectedCount = st.totalCollectedCount + 1]
            IN CandidateLoop_Merging(platform, Tail(cands), product, hashtags, st2)

(* the loop with the cap tested one review too late *)
RECURSIVE CandidateLoop_LateCap(_, _, _, _, _)
CandidateLoop_LateCap(platform, cands, product, hashtags, st) ==
  IF cands = <<>> THEN st
  ELSE IF st.productCollectedCount > MAX_REVIEWS_PER_PRODUCT
       THEN [st EXCEPT !.capped = TRUE]
       ELSE LET c == cands[1]
                d == Decide(platform, c, product, hashtags)
                st2 == IF Exists(st.reviews, platform, c.extId) \/ ~d.isMatched
                       THEN st
                       ELSE [st EXCEPT
                               !.reviews = Append(st.reviews,
                                  NewReview(st.nextReviewId, platform, c.extId, "PENDING",
                                            product.productCode, d.matchScore)),
                               !.nextReviewId = st.nextReviewId + 1,
                               !.productCollectedCount = st.productCollectedCount + 1,
                               !.totalCollectedCount = st.totalCollectedCount + 1]
            IN CandidateLoop_LateCap(platform, Tail(cands), product, hashtags, st2)

(* loop state: the review array, the id counter, the two counters, and      *)
(* whether the loop stopped at the per-product cap                          *)
RECURSIVE CandidateLoop(_, _, _, _, _)
CandidateLoop(platform, cands, product, hashtags, st) ==
  IF cands = <<>> THEN st
  ELSE IF st.productCollectedCount >= MAX_REVIEWS_PER_PRODUCT
       THEN [st EXCEPT !.capped = TRUE]
       ELSE LET c == cands[1]
                d == Decide(platform, c, product, hashtags)
                st2 == IF Exists(st.reviews, platform, c.extId) \/ ~d.isMatched
                       THEN st
                       ELSE [st EXCEPT
                               !.reviews = Append(st.reviews,
                                  NewReview(st.nextReviewId, platform, c.extId, "PENDING",
                                            product.productCode, d.matchScore)),
                               !.nextReviewId = st.nextReviewId + 1,
                               !.productCollectedCount = st.productCollectedCount + 1,
                               !.totalCollectedCount = st.totalCollectedCount + 1]
            IN CandidateLoop(platform, Tail(cands), product, hashtags, st2)

-----------------------------------------------------------------------------
(* Collector: triggerCollection and the collect* functions as processes.   *)
(* A slot holds one triggerCollection call; its phase is the await it is   *)
(* suspended at.                                                           *)

Slots == {1, 2}
CollectPlatforms == {"YOUTUBE", "INSTAGRAM"}
TriggerArgs == {"ALL", "YOUTUBE", "TIKTOK", "INSTAGRAM"}

NoRes == [set |-> FALSE, success |-> FALSE, collected |-> 0, rerun |-> FALSE,
          prevCapped |-> FALSE, prevLen |-> 0, startLen |-> 0, endLen |-> 0]
FailRes == [NoRes EXCEPT !.set = TRUE]

IdleRun == [phase |-> "idle", platform |-> "ALL", idx |-> 0, total |-> 0, seen |-> <<>>,
            clean |-> FALSE, base |-> FALSE, capped |-> FALSE, startLen |-> 0,
            results |-> [youtube |-> NoRes, tiktok |-> NoRes, instagram |-> NoRes]]

InFlight(run) == run.phase \in {"yt", "igconn", "ig"}
PhasePlatform(run) == IF run.phase = "yt" THEN "YOUTUBE" ELSE "INSTAGRAM"

NoLastRun == [valid |-> FALSE, seen |-> <<>>, capped |-> FALSE, endLen |-> 0]

(* the loop of a collect* function begins: it is suspended at the first search *)
EnterLoop(run, phase, plat, quiet) ==
  [run EXCEPT !.phase = phase, !.idx = 1, !.total = 0, !.seen = <<>>, !.capped = FALSE,
              !.clean = quiet, !.base = lastRun[plat].valid, !.startLen = Len(snsReviews)]

(* triggerCollection after collectYouTubeReviews: TikTok, then Instagram *)
AfterYouTube(run) ==
  LET r1 == IF run.platform \in {"ALL", "TIKTOK"}
            THEN [run EXCEPT !.results.tiktok = FailRes] ELSE run
  IN IF r1.platform \in {"ALL", "INSTAGRAM"}
     THEN IF ~refsSet
          THEN [r1 EXCEPT !.phase = "done", !.results.instagram = FailRes]
          ELSE [r1 EXCEPT !.phase = "igconn"]
     ELSE [r1 EXCEPT !.phase = "done"]

(* POST /admin/sns-reviews/collect -> triggerCollection(platform) *)
TriggerCollection(r, platform) ==
  /\ runs[r].phase \in {"idle", "done"}
  /\ \A q \in Slots : q < r => InFlight(runs[q])
  /\ started < MaxRuns
  /\ started' = started + 1
  /\ LET quiet == \A q \in Slots : ~InFlight(runs[q])
         run0 == [IdleRun EXCEPT !.platform = platform]
         mine == IF platform \in {"ALL", "YOUTUBE"}
                 THEN IF ~refsSet
                      THEN AfterYouTube([run0 EXCEPT !.results.youtube = FailRes])
                      ELSE EnterLoop(run0, "yt", "YOUTUBE", quiet)
                 ELSE AfterYouTube(run0)
     IN runs' = [q \in Slots |-> IF q = r THEN mine
                                 ELSE [runs[q] EXCEPT !.clean = FALSE]]
  /\ saveCalls' = 0 /\ http' = 0
  /\ UNCHANGED <<snsReviews, refsSet, nextReviewId, lastRun, adminOps, analyzerVars>>

(* the result of a run that rethrows a product's failure to its caller *)
Finished_Rethrown(run, plat, reviews) ==
  [set |-> TRUE, success |-> \A i \in 1..Len(run.seen) : ~Feeds[run.seen[i]].err,
   collected |-> IF \E i \in 1..Len(run.seen) : Feeds[run.seen[i]].err THEN 0 ELSE run.total,
   rerun |-> FALSE, prevCapped |-> lastRun[plat].capped, prevLen |-> lastRun[plat].endLen,
   startLen |-> run.startLen, endLen |-> Len(reviews)]

(* the end of a collect* function: save, result, history *)
Finished(run, plat, reviews) ==
  [set |-> TRUE, success |-> TRUE, collected |-> run.total,
   rerun |-> run.base /\ run.clean /\ run.seen = lastRun[plat].seen,
   prevCapped |-> lastRun[plat].capped, prevLen |-> lastRun[plat].endLen,
   startLen |-> run.startLen, endLen |-> Len(reviews)]

(* one product of the loop: the search resolves with feed f (or throws),    *)
(* the candidates are handled without suspension, and the loop moves on     *)
SearchReturn(r, f) ==
  /\ runs[r].phase \in {"yt", "ig"}
  /\ LET run == runs[r]
         plat == PhasePlatform(run)
         product == activeProducts[run.idx]
         hashtags == extractHashtagsFromProduct(product)
         st0 == [reviews |-> snsReviews, nextReviewId |-> nextReviewId,
                 productCollectedCount |-> 0, totalCollectedCount |-> run.total,
                 capped |-> FALSE]
         st == IF Feeds[f].err THEN st0
               ELSE CandidateLoop(plat, Feeds[f].items, product, hashtags, st0)
         appended == Len(st.reviews) > Len(snsReviews)
         run1 == [run EXCEPT !.total = st.totalCollectedCount,
                             !.seen = Append(run.seen, f),
                             !.capped = run.capped \/ st.capped]
         last == run.idx = Len(activeProducts)
         res == Finished(run1, plat, st.reviews)
         run2 == IF ~last THEN [run1 EXCEPT !.idx = run.idx + 1]
                 ELSE IF plat = "YOUTUBE"
                      THEN AfterYouTube([run1 EXCEPT !.results.youtube = res])
                      ELSE [run1 EXCEPT !.phase = "done", !.results.instagram = res]
     IN /\ snsReviews' = st.reviews
        /\ nextReviewId' = st.nextReviewId
        /\ runs' = [q \in Slots |-> IF q = r THEN run2
                                    ELSE IF appended THEN [runs[q] EXCEPT !.clean = FALSE]
                                    ELSE runs[q]]
        /\ lastRun' = [p \in CollectPlatforms |->
                         IF p = plat /\ last
                         THEN [valid |-> run1.clean, seen |-> run1.seen,
                               capped |-> run1.capped, endLen |-> Len(st.reviews)]
                         ELSE IF appended /\ p # plat
                              THEN [lastRun[p] EXCEPT !.valid = FALSE]
                              ELSE lastRun[p]]
        /\ saveCalls' = IF last /\ run1.total > 0 THEN 1 ELSE 0
  /\ http' = 0
  /\ UNCHANGED <<refsSet, started, adminOps, analyzerVars>>

(* collectInstagramReviews: instagram.checkConnection() resolves *)
InstagramConnection(r, connected) ==
  /\ runs[r].phase = "igconn"
  /\ LET quiet == \A q \in Slots \ {r} : ~InFlight(runs[q])
     IN runs' = [runs EXCEPT ![r] =
                   IF connected THEN EnterLoop(runs[r], "ig", "INSTAGRAM", quiet)
                   ELSE [runs[r] EXCEPT !.phase = "done", !.results.instagram = FailRes]]
  /\ saveCalls' = 0 /\ http' = 0
  /\ UNCHANGED <<snsReviews, refsSet, nextReviewId, lastRun, started, adminOps, analyzerVars>>

(* setReferences(snsReviews, products, saveData) *)
setReferences ==
  /\ ~refsSet
  /\ refsSet' = TRUE
  /\ nextReviewId' = MaxId(snsReviews) + 1
  /\ saveCalls' = 0 /\ http' = 0
  /\ UNCHANGED <<snsReviews, runs, lastRun, started, adminOps, analyzerVars>>

-----------------------------------------------------------------------------
(* server.js: the admin endpoints on the review collection. They are       *)
(* registered after setReferences ran (server.js:2338).                    *)

Interfere(rs) == [q \in Slots |-> [rs[q] EXCEPT !.clean = FALSE]]
Invalidate(lr) == [p \in CollectPlatforms |-> [lr[p] EXCEPT !.valid = FALSE]]

(* findIndex(r => r.id === parseInt(id)): 0 when there is none *)
FindIndex(reviews, id) ==
  IF \E i \in 1..Len(reviews) : reviews[i].id = id
  THEN CHOOSE i \in 1..Len(reviews) :
         reviews[i].id = id /\ \A j \in 1..(i - 1) : reviews[j].id # id
  ELSE 0

AdminIds == {7, 8}
StatusInputs == {"APPROVED", "rejected", "HIDDEN"}
Statuses == {"PENDING", "APPROVED", "REJECTED"}

toUpperCase(s) == IF s = "rejected" THEN "REJECTED" ELSE s

(* what the URL of a manual addition parses to; id 0: no id in the URL *)
ManualInputs == {
  [site |-> "youtube", id |-> 1], [site |-> "youtube", id |-> 0],
  [site |-> "instagram", id |-> 1], [site |-> "instagram", id |-> 0],
  [site |-> "tiktok", id |-> 5], [site |-> "other", id |-> 0] }
ManualSome == { [site |-> "youtube", id |-> 1], [site |-> "instagram", id |-> 0] }

(* `manual_${Date.now()}` *)
ManualExternalId(t) == 0 - 1 - t

(* server.js:2649-2753: reviewData, or none *)
ReviewData(in, t) ==
  CASE in.site = "youtube" ->
         [some |-> in.id # 0, platform |-> "YOUTUBE", externalId |-> in.id]
    [] in.site = "instagram" ->
         [some |-> TRUE, platform |-> "INSTAGRAM",
          externalId |-> IF in.id # 0 THEN in.id ELSE ManualExternalId(t)]
    [] in.site = "tiktok" ->
         [some |-> TRUE, platform |-> "TIKTOK",
          externalId |-> IF in.id # 0 THEN in.id ELSE ManualExternalId(t)]
    [] OTHER -> [some |-> FALSE, platform |-> "NONE", externalId |-> 0]

AdminGuard ==
  /\ refsSet
  /\ adminOps < MaxAdminOps
  /\ adminOps' = adminOps + 1

(* POST /admin/sns-reviews/manual, from the duplicate check on *)
ManualAdd(in, productCode) ==
  /\ AdminGuard
  /\ LET data == ReviewData(in, now)
     IN IF ~data.some \/ Exists(snsReviews, data.platform, data.externalId)
        THEN /\ http' = 400
             /\ saveCalls' = 0
             /\ UNCHANGED <<snsReviews, runs, lastRun>>
        ELSE /\ snsReviews' = Append(snsReviews,
                  NewReview(MaxId(snsReviews) + 1, data.platform, data.externalId,
                            "APPROVED", productCode, 100))
             /\ saveCalls' = 1
             /\ http' = 200
             /\ runs' = Interfere(runs)
             /\ lastRun' = Invalidate(lastRun)
  /\ UNCHANGED <<refsSet, nextReviewId, started, analyzerVars>>

(* DELETE /admin/sns-reviews/:id *)
DeleteReview(id) ==
  /\ AdminGuard
  /\ LET reviewIndex == FindIndex(snsReviews, id)
     IN IF reviewIndex = 0
        THEN /\ http' = 404
             /\ saveCalls' = 0
             /\ UNCHANGED <<snsReviews, runs, lastRun>>
        ELSE /\ snsReviews' = SubSeq(snsReviews, 1, reviewIndex - 1)
                                \o SubSeq(snsReviews, reviewIndex + 1, Len(snsReviews))
             /\ saveCalls' = 1
             /\ http' = 200
             /\ runs' = Interfere(runs)
             /\ lastRun' = Invalidate(lastRun)
  /\ UNCHANGED <<refsSet, nextReviewId, started, analyzerVars>>

UpdateStatus_Unchecked(id, status) ==
  /\ AdminGuard
  /\ LET reviewIndex == FindIndex(snsReviews, id)
     IN IF reviewIndex = 0
        THEN http' = 404 /\ saveCalls' = 0 /\ UNCHANGED snsReviews
        ELSE /\ snsReviews' = [snsReviews EXCEPT ![reviewIndex].status = toUpperCase(status)]
             /\ saveCalls' = 1
             /\ http' = 200
  /\ UNCHANGED <<refsSet, nextReviewId, runs, lastRun, started, analyzerVars>>

(* PUT /admin/sns-reviews/:id/status *)
UpdateStatus(id, status) ==
  /\ AdminGuard
  /\ LET reviewIndex == FindIndex(snsReviews, id)
     IN IF reviewIndex = 0
        THEN http' = 404 /\ saveCalls' = 0 /\ UNCHANGED snsReviews
        ELSE IF toUpperCase(status) \notin Statuses
             THEN http' = 400 /\ saveCalls' = 0 /\ UNCHANGED snsReviews
             ELSE /\ snsReviews' = [snsReviews EXCEPT ![reviewIndex].status = toUpperCase(status)]
                  /\ saveCalls' = 1
                  /\ http' = 200
  /\ UNCHANGED <<refsSet, nextReviewId, runs, lastRun, started, analyzerVars>>

HasProduct(review, productCode) ==
  \E i \in 1..Len(review.matchedProducts) : review.matchedProducts[i].productCode = productCode

(* PUT /admin/sns-reviews/approve-all; productCode "" when the body has none *)
ApproveAll(productCode) ==
  /\ AdminGuard
  /\ LET target(rv) == rv.status = "PENDING"
                       /\ (productCode # "" => HasProduct(rv, productCode))
         approvedCount == Cardinality({i \in 1..Len(snsReviews) : target(snsReviews[i])})
     IN /\ snsReviews' = [i \in 1..Len(snsReviews) |->
                            IF target(snsReviews[i])
                            THEN [snsReviews[i] EXCEPT !.status = "APPROVED"]
                            ELSE snsReviews[i]]
        /\ saveCalls' = IF approvedCount > 0 THEN 1 ELSE 0
        /\ http' = 200
  /\ UNCHANGED <<refsSet, nextReviewId, runs, lastRun, started, analyzerVars>>

-----------------------------------------------------------------------------
(* Review summarizer (unnamed/part_003): cache, insights, resolution chain *)

CACHE_TTL == 30 * 60 * 1000

(* the clock advances in steps of one TTL: an entry is still fresh after   *)
(* one step (age = TTL) and expired after two                              *)
TickStep == CACHE_TTL

(* String(id): the decimal digits of a number, as UTF-16 code units *)
RECURSIVE String(_)
String(n) == IF n < 10 THEN <<48 + n>> ELSE String(n \div 10) \o <<48 + (n % 10)>>

(* a < b in the order Array.prototype.sort() uses without a comparator:    *)
(* the strings compared code unit by code unit                             *)
RECURSIVE StrLess(_, _)
StrLess(a, b) ==
  IF b = <<>> THEN FALSE
  ELSE IF a = <<>> THEN TRUE
  ELSE IF a[1] # b[1] THEN a[1] < b[1]
  ELSE StrLess(Tail(a), Tail(b))

RECURSIVE InsertSorted(_, _)
InsertSorted(sorted, x) ==
  IF sorted = <<>> THEN <<x>>
  ELSE IF StrLess(String(x), String(sorted[1])) THEN <<x>> \o sorted
  ELSE <<sorted[1]>> \o InsertSorted(Tail(sorted), x)

(* ids.sort() *)
RECURSIVE sort(_)
sort(ids) == IF ids = <<>> THEN <<>> ELSE InsertSorted(sort(Tail(ids)), ids[1])

(* strs.join(','), 44 is the comma *)
RECURSIVE join(_)
join(ids) ==
  IF ids = <<>> THEN <<>>
  ELSE IF Len(ids) = 1 THEN String(ids[1])
  ELSE String(ids[1]) \o <<44>> \o join(Tail(ids))

(* the fingerprint with the ids left in the order they were given *)
Fingerprint_Unsorted(ids) == join(ids)

(* reviews.map(r => r.id).sort().join(',') *)
Fingerprint(ids) == join(sort(ids))

(* h.replace(/^#/, '') *)
StripHash(h) == IF h # <<>> /\ h[1] = "#" THEN Tail(h) ELSE h

(* What JSON.parse gave for the model's answer.                            *)
(*   kind "object": an object; n names its summary text, ui says whether   *)
(*     updatedInsights is a non-empty string, tagsOk whether hashtags is   *)
(*     an array of strings                                                 *)
(*   kind "truthy": a non-object value that is truthy (5, "x")             *)
(*   kind "falsy":  0, false or ""                                         *)
(*   kind "null":   null                                                   *)
Result(kind, n, ui, tagsOk) == [kind |-> kind, n |-> n, ui |-> ui, tagsOk |-> tagsOk]
NullResult == Result("null", 0, FALSE, FALSE)
Truthy(result) == result.kind \in {"object", "truthy"}

AiHashtags == << <<"#", "g">>, <<"d">> >>
AiSentiment == [positiveRatio |-> 85, negativeRatio |-> 15]

(* What anthropicClient.messages.create and JSON.parse can come back with  *)
AiAnswers ==
  { [kind |-> k, ui |-> FALSE, tagsOk |-> FALSE] : k \in {"reject", "badjson", "null", "falsy", "truthy"} }
  \cup { [kind |-> "object", ui |-> u, tagsOk |-> t] : u, t \in BOOLEAN }

(* a cache entry; ids remembers the reviews it was written for *)
NoEntry == [present |-> FALSE, summary |-> NullResult, analyzedReviewIds |-> <<>>,
            timestamp |-> 0, ids |-> <<>>]
Entry(result, ids, t) ==
  [present |-> TRUE, summary |-> result, analyzedReviewIds |-> Fingerprint(ids),
   timestamp |-> t, ids |-> ids]

(* summaries are named: <<"ai", n>> is the text of the n-th model answer *)
Undefined == <<"undefined", 0>>
EmptyText == <<"", 0>>

Insight(productCode, result, ids, version, t) ==
  [productCode |-> productCode, summary |-> <<"ai", result.n>>,
   hashtags |-> IF result.tagsOk THEN AiHashtags ELSE <<>>,
   sentiment |-> AiSentiment, reviewIds |-> ids, lastAnalyzedAt |-> t, version |-> version]

Override(productCode) ==
  [productCode |-> productCode, summary |-> <<"override", 0>>, hashtags |-> << <<"o">> >>,
   sentiment |-> [positiveRatio |-> 90, negativeRatio |-> 10]]

(* the data the server injects with initialize(refs), and the environment *)
InitConfigs ==
  { [client |-> TRUE,  onSave |-> TRUE,  overrides |-> <<>>, insights |-> <<>>],
    [client |-> TRUE,  onSave |-> TRUE,  overrides |-> <<Override("P1")>>,
     insights |-> <<Insight("P1", Result("object", 0, TRUE, TRUE), <<7>>, 3, 0)>>],
    [client |-> TRUE,  onSave |-> FALSE, overrides |-> <<>>,
     insights |-> <<Insight("P1", Result("object", 0, TRUE, TRUE), <<7>>, 3, 0)>>],
    [client |-> FALSE, onSave |-> TRUE,  overrides |-> <<>>, insights |-> <<>>] }

(* isClaudeAvailable() *)
isClaudeAvailable == aiProvider = "claude" /\ claudeClient

(* productInsightsRef.findIndex(i => i.productCode === productCode), 0: none *)
InsightIndex(insights, productCode) ==
  IF \E i \in 1..Len(insights) : insights[i].productCode = productCode
  THEN CHOOSE i \in 1..Len(insights) :
         /\ insights[i].productCode = productCode
         /\ \A j \in 1..(i - 1) : insights[j].productCode # productCode
  ELSE 0

VersionOf(insights, productCode) ==
  IF InsightIndex(insights, productCode) = 0 THEN 0
  ELSE insights[InsightIndex(insights, productCode)].version

UndefinedSentiment == [positiveRatio |-> 0 - 1, negativeRatio |-> 0 - 1]
ZeroSentiment == [positiveRatio |-> 0, negativeRatio |-> 0]

(* what keywordFallback(approvedReviews) answers: summary {ko, en}, its own sentiment *)
KwResult == [summary |-> <<"keyword", 0>>, hashtags |-> << <<"k">> >>,
             sentiment |-> [positiveRatio |-> 60, negativeRatio |-> 40]]

NoTrace == [ids |-> <<>>, startNow |-> 0, aiBefore |-> 0, aiAfter |-> 0, hadOverride |-> FALSE,
            available |-> FALSE, entry |-> "none", entryPresent |-> FALSE, entryAge |-> 0, entryIds |-> <<>>,
            ai |-> "none", truthy |-> FALSE, cachedAt |-> 0, updated |-> FALSE, hadInsight |-> FALSE,
            kf |-> FALSE]
NoCall == [pc |-> "idle", op |-> "none", productCode |-> "P1", trace |-> NoTrace]
NoRet == [set |-> FALSE, op |-> "none", productCode |-> "P1", aiProvider |-> "none",
          summary |-> EmptyText, hashtags |-> <<>>, sentiment |-> ZeroSentiment,
          reviewCount |-> 0, success |-> FALSE, error |-> FALSE, trace |-> NoTrace]
NoHist == [set |-> FALSE, op |-> "none", productCode |-> "P1", aiProvider |-> "none",
           ids |-> <<>>, startNow |-> 0, aiBefore |-> 0, truthy |-> FALSE, cachedAt |-> 0]

(* what is remembered of the call before the last one *)
Remember(r) ==
  [set |-> r.set, op |-> r.op, productCode |-> r.productCode, aiProvider |-> r.aiProvider,
   ids |-> r.trace.ids, startNow |-> r.trace.startNow, aiBefore |-> r.trace.aiBefore,
   truthy |-> r.trace.truthy, cachedAt |-> r.trace.cachedAt]

(* the object a call resolves with, and the facts of how it got there *)
Payload(op, productCode, provider, summary, hashtags, sentiment, reviewCount, trace) ==
  [set |-> TRUE, op |-> op, productCode |-> productCode, aiProvider |-> provider,
   summary |-> summary, hashtags |-> hashtags, sentiment |-> sentiment,
   reviewCount |-> reviewCount, success |-> TRUE, error |-> FALSE, trace |-> trace]

(* the override find() returns *)
FindOverride(productCode) ==
  overrides[CHOOSE i \in 1..Len(overrides) :
              /\ overrides[i].productCode = productCode
              /\ \A j \in 1..(i - 1) : overrides[j].productCode # productCode]

(* the lookup without the TTL test *)
Expired_Never(age) == FALSE

(* Date.now() - cached.timestamp > CACHE_TTL *)
Expired(age) == age > CACHE_TTL

(* getCachedAnalysis: what it returns (value), why, and the cache it leaves *)
getCachedAnalysis(cache, productCode, currentReviewIds, t) ==
  LET cached == cache[productCode] IN
  IF ~cached.present
  THEN [value |-> NullResult, why |-> "absent", cache |-> cache]
  ELSE IF Expired(t - cached.timestamp)
  THEN [value |-> NullResult, why |-> "expired", cache |-> [cache EXCEPT ![productCode] = NoEntry]]
  ELSE IF cached.analyzedReviewIds # Fingerprint(currentReviewIds)
  THEN [value |-> NullResult, why |-> "mismatch", cache |-> cache]
  ELSE [value |-> cached.summary, why |-> IF Truthy(cached.summary) THEN "hit" ELSE "falsy",
        cache |-> cache]

(* { ...cached, reviewCount, aiProvider: 'claude-cached' } *)
CachedPayload(productCode, cached, ids, trace) ==
  IF cached.kind = "object"
  THEN Payload("getSummary", productCode, "claude-cached", <<"ai", cached.n>>,
               IF cached.tagsOk THEN AiHashtags ELSE <<>>, AiSentiment, Len(ids), trace)
  ELSE Payload("getSummary", productCode, "claude-cached", Undefined, <<>>,
               UndefinedSentiment, Len(ids), trace)

(* the insight tier with the test on the reviews it was made from *)
InsightUsable_SameReviews(insight, ids) == Fingerprint(insight.reviewIds) = Fingerprint(ids)

(* existingInsights && existingInsights.summary *)
InsightUsable(insight, ids) == insight.summary # Undefined

(* sentiment: { positiveRatio: 0, negativeRatio: 0 } of the empty payload *)
EmptySentiment == ZeroSentiment

(* getSummary steps 3 to 5: stored insight, keyword fallback, empty payload *)
Fallthrough(insights, productCode, ids, kf, trace) ==
  LET idx == IF initialized THEN InsightIndex(insights, productCode) ELSE 0
      tr == trace
  IN IF idx > 0 /\ InsightUsable(insights[idx], ids)
     THEN Payload("getSummary", productCode, "insights-cached", insights[idx].summary,
                  insights[idx].hashtags, insights[idx].sentiment, Len(ids), tr)
     ELSE IF kf /\ Len(ids) > 0
     THEN Payload("getSummary", productCode, "keyword", KwResult.summary,
                  KwResult.hashtags, KwResult.sentiment, Len(ids), tr)
     ELSE Payload("getSummary", productCode, "none", EmptyText, <<>>, EmptySentiment, 0, tr)

(* getSummary with the failure of the analysis passed on to the caller *)
GetSummaryCatch_Rethrow(insights, productCode, ids, kf, trace) ==
  [Fallthrough(insights, productCode, ids, kf, trace) EXCEPT !.error = TRUE]

(* getSummary's catch around the AI tier: log, then go on with step 3 *)
GetSummaryCatch(insights, productCode, ids, kf, trace) ==
  Fallthrough(insights, productCode, ids, kf, trace)

(* the override looked up only when the AI tier cannot answer *)
HasOverride_AfterAi(productCode) ==
  /\ initialized /\ ~isClaudeAvailable
  /\ \E i \in 1..Len(overrides) : overrides[i].productCode = productCode

(* snsReviewOverridesRef && snsReviewOverridesRef.find(o => o.productCode === productCode) *)
HasOverride(productCode) ==
  initialized /\ \E i \in 1..Len(overrides) : overrides[i].productCode = productCode

SummarizerIdle == call.pc = "idle" /\ calls < MaxCalls

(* a summarizer call resolves: the caller gets newRet *)
Resolve(newRet) ==
  /\ ret' = newRet
  /\ hist' = Remember(ret)
  /\ call' = NoCall

(* initialize(refs): the arrays of the data store, the save callback, and  *)
(* the client when ANTHROPIC_API_KEY is a usable key                       *)
Initialize(cfg) ==
  /\ ~initialized
  /\ call.pc = "idle"
  /\ initialized' = TRUE
  /\ claudeClient' = cfg.client
  /\ onSave' = cfg.onSave
  /\ productInsights' = cfg.insights
  /\ overrides' = cfg.overrides
  /\ aiFeedbackHistory' = <<>>
  /\ saveCalls' = 0
  /\ http' = 0
  /\ UNCHANGED <<snsReviews, refsSet, nextReviewId, runs, lastRun, started, adminOps, probe, saver,
                 aiProvider, analysisCache, now, call, ret, aiCalls, hist, fbCount, calls>>

(* Date.now() moves on *)
Tick ==
  /\ now < MaxTicks * TickStep
  /\ now' = now + TickStep
  /\ saveCalls' = 0
  /\ http' = 0
  /\ UNCHANGED <<collectorVars_noHttp, probe, saver, initialized, claudeClient, aiProvider, onSave,
                 productInsights, aiFeedbackHistory, overrides, analysisCache, call, ret,
                 aiCalls, hist, fbCount, calls>>

RECURSIVE Reverse(_)
Reverse(q) == IF q = <<>> THEN <<>> ELSE Append(Reverse(Tail(q)), q[1])

(* the read with the sort applied to the history array itself *)
getRecentFeedback_InPlace(history, productCode) ==
  [store |-> Reverse(history), recent |-> SubSeq(Reverse(history), 1, Min(5, Len(history)))]

(* getRecentFeedback(productCode): filter makes a new array, which is      *)
(* sorted newest first and cut to 5; store is the history array afterwards *)
getRecentFeedback(history, productCode) ==
  LET mine == Reverse(SelectSeq(history, LAMBDA f : f.productCode = productCode))
  IN [store |-> history, recent |-> SubSeq(mine, 1, Min(5, Len(mine)))]

(* getSummary(productCode, approvedReviews, keywordFallback) up to its     *)
(* return or to the await of the model's answer; ids are the reviews' ids  *)
GetSummary(productCode, ids, kf) ==
  LET lookup == getCachedAnalysis(analysisCache, productCode, ids, now)
      trace == [NoTrace EXCEPT !.ids = ids, !.startNow = now, !.aiBefore = aiCalls,
                               !.aiAfter = aiCalls, !.kf = kf,
                               !.hadInsight =
                                 /\ initialized
                                 /\ \E i \in 1..Len(productInsights) :
                                      productInsights[i].productCode = productCode,
                               !.entryAge = now - analysisCache[productCode].timestamp,
                               !.entryIds = analysisCache[productCode].ids,
                               !.entryPresent = analysisCache[productCode].present,
                               !.hadOverride =
                                 \E i \in 1..Len(overrides) : overrides[i].productCode = productCode,
                               !.available = isClaudeAvailable]
  IN
  /\ SummarizerIdle
  /\ calls' = calls + 1
  /\ saveCalls' = 0
  /\ http' = 0
  /\ IF HasOverride(productCode)
     THEN /\ Resolve(Payload("getSummary", productCode, "override",
                             FindOverride(productCode).summary,
                             FindOverride(productCode).hashtags,
                             FindOverride(productCode).sentiment, Len(ids), trace))
          /\ UNCHANGED <<analysisCache, aiCalls, aiFeedbackHistory>>
     ELSE IF isClaudeAvailable /\ Len(ids) > 0
     THEN /\ analysisCache' = lookup.cache
          /\ IF Truthy(lookup.value)
             THEN /\ Resolve(CachedPayload(productCode, lookup.value, ids,
                                           [trace EXCEPT !.entry = lookup.why, !.ai = "hit",
                                                         !.truthy = TRUE,
                                                         !.cachedAt = trace.startNow - trace.entryAge]))
                  /\ UNCHANGED <<aiCalls, aiFeedbackHistory>>
             ELSE /\ call' = [pc |-> "await", op |-> "getSummary", productCode |-> productCode,
                              trace |-> [trace EXCEPT !.entry = lookup.why,
                                                      !.aiAfter = aiCalls + 1]]
                  /\ aiCalls' = aiCalls + 1
                  /\ aiFeedbackHistory' = getRecentFeedback(aiFeedbackHistory, productCode).store
                  /\ UNCHANGED <<ret, hist>>
     ELSE /\ Resolve(Fallthrough(productInsights, productCode, ids, kf, trace))
          /\ UNCHANGED <<analysisCache, aiCalls, aiFeedbackHistory>>
  /\ UNCHANGED <<collectorVars_noHttp, probe, saver, initialized, claudeClient, aiProvider, onSave,
                 productInsights, overrides, now, fbCount>>

(* triggerReanalysis(productCode, approvedReviews, productName) up to its  *)
(* return or to the await of the model's answer                            *)
TriggerReanalysis(productCode, ids) ==
  LET trace == [NoTrace EXCEPT !.ids = ids, !.startNow = now, !.aiBefore = aiCalls,
                               !.aiAfter = aiCalls,
                               !.hadOverride =
                                 \E i \in 1..Len(overrides) : overrides[i].productCode = productCode,
                               !.available = isClaudeAvailable]
      refused == [Payload("triggerReanalysis", productCode, "none", EmptyText, <<>>,
                          ZeroSentiment, 0, trace) EXCEPT !.success = FALSE]
  IN
  /\ SummarizerIdle
  /\ calls' = calls + 1
  /\ saveCalls' = 0
  /\ http' = 0
  /\ IF ~isClaudeAvailable \/ Len(ids) = 0
     THEN /\ Resolve(refused)
          /\ UNCHANGED <<analysisCache, aiCalls, aiFeedbackHistory>>
     ELSE /\ analysisCache' = [analysisCache EXCEPT ![productCode] = NoEntry]
          /\ call' = [pc |-> "await", op |-> "triggerReanalysis", productCode |-> productCode,
                      trace |-> [trace EXCEPT !.aiAfter = aiCalls + 1]]
          /\ aiCalls' = aiCalls + 1
          /\ aiFeedbackHistory' = getRecentFeedback(aiFeedbackHistory, productCode).store
          /\ UNCHANGED <<ret, hist>>
  /\ UNCHANGED <<collectorVars_noHttp, probe, saver, initialized, claudeClient, aiProvider, onSave,
                 productInsights, overrides, now, fbCount>>

(* the version with the stored one kept on re-analysis *)
NextVersion_Kept(insights, productCode) ==
  IF InsightIndex(insights, productCode) > 0
  THEN insights[InsightIndex(insights, productCode)].version
  ELSE 1

(* existingIdx >= 0 ? (productInsightsRef[existingIdx].version || 0) + 1 : 1 *)
NextVersion(insights, productCode) ==
  IF InsightIndex(insights, productCode) > 0
  THEN insights[InsightIndex(insights, productCode)].version + 1
  ELSE 1

(* productInsightsRef[existingIdx] = insightData, or push(insightData) *)
PutInsight(insights, insight) ==
  IF InsightIndex(insights, insight.productCode) > 0
  THEN [insights EXCEPT ![InsightIndex(insights, insight.productCode)] = insight]
  ELSE Append(insights, insight)

(* the rest of analyzeWithClaude once messages.create has settled, and     *)
(* the rest of the caller (getSummary's catch and steps 3 to 5, or         *)
(* triggerReanalysis' try/catch)                                           *)
AIReturn(ans) ==
  LET productCode == call.productCode
      ids == call.trace.ids
      result == Result(ans.kind, aiCalls, ans.ui, ans.tagsOk)
      threwEarly == ans.kind \in {"reject", "badjson", "null"}
      updates == ~threwEarly /\ ans.kind = "object" /\ ans.ui /\ initialized
      insights2 == IF updates
                   THEN PutInsight(productInsights,
                                   Insight(productCode, result, ids,
                                           NextVersion(productInsights, productCode), now))
                   ELSE productInsights
      threwLate == ans.kind = "object" /\ ~ans.tagsOk
      trace == [call.trace EXCEPT !.updated = updates,
                  !.hadInsight = \E i \in 1..Len(insights2) : insights2[i].productCode = productCode,
                  !.truthy = ans.kind \in {"object", "truthy"},
                  !.cachedAt = now,
                  !.ai = IF threwEarly THEN "threw" ELSE IF threwLate THEN "threwLate" ELSE "ok"]
      returned == Payload(call.op, productCode, "claude",
                          IF ans.kind = "object" THEN <<"ai", result.n>> ELSE Undefined,
                          IF ans.kind = "object"
                          THEN [i \in 1..Len(AiHashtags) |-> StripHash(AiHashtags[i])]
                          ELSE <<>>,
                          IF ans.kind = "object" THEN AiSentiment ELSE UndefinedSentiment,
                          Len(ids), trace)
  IN
  /\ call.pc = "await"
  /\ productInsights' = insights2
  /\ saveCalls' = IF updates /\ onSave THEN 1 ELSE 0
  /\ analysisCache' = IF threwEarly THEN analysisCache
                      ELSE [analysisCache EXCEPT ![productCode] = Entry(result, ids, now)]
  /\ IF ~threwEarly /\ ~threwLate
     THEN Resolve(returned)
     ELSE IF call.op = "getSummary"
     THEN Resolve(GetSummaryCatch(insights2, productCode, ids, call.trace.kf, trace))
     ELSE Resolve([returned EXCEPT !.success = FALSE, !.aiProvider = "none",
                                   !.summary = EmptyText, !.hashtags = <<>>,
                                   !.sentiment = ZeroSentiment])
  /\ http' = 0
  /\ UNCHANGED <<collectorVars_noHttp, probe, saver, initialized, claudeClient, aiProvider, onSave,
                 aiFeedbackHistory, overrides, now, aiCalls, fbCount, calls>>

(* the eviction taking the newest record of the product *)
Evict_Newest(history, productCode) ==
  LET mine == {i \in 1..Len(history) : history[i].productCode = productCode} IN
  IF Cardinality(mine) > 10
  THEN LET idx == CHOOSE i \in mine : \A j \in mine : j <= i
       IN [k \in 1..(Len(history) - 1) |-> IF k < idx THEN history[k] ELSE history[k + 1]]
  ELSE history

(* productFeedbacks.length > 10: splice out the first record of the product *)
Evict(history, productCode) ==
  LET mine == {i \in 1..Len(history) : history[i].productCode = productCode} IN
  IF Cardinality(mine) > 10
  THEN LET idx == CHOOSE i \in mine : \A j \in mine : i <= j
       IN [k \in 1..(Len(history) - 1) |-> IF k < idx THEN history[k] ELSE history[k + 1]]
  ELSE history

(* recordFeedback(productCode, originalSummary, correctedSummary); the     *)
(* record's texts and createdAt are named by nth, the number of the call   *)
(* among the product's calls                                               *)
RecordFeedback(productCode) ==
  /\ fbCount[productCode] < (IF productCode = "P1" THEN MaxFeedback ELSE MaxOtherFeedback)
  /\ call.pc = "idle"
  /\ IF ~initialized
     THEN UNCHANGED <<aiFeedbackHistory, fbCount>> /\ saveCalls' = 0
     ELSE /\ aiFeedbackHistory' =
               Evict(Append(aiFeedbackHistory,
                            [productCode |-> productCode, nth |-> fbCount[productCode] + 1]),
                     productCode)
          /\ fbCount' = [fbCount EXCEPT ![productCode] = @ + 1]
          /\ saveCalls' = IF onSave THEN 1 ELSE 0
  /\ http' = 0
  /\ UNCHANGED <<collectorVars_noHttp, probe, saver, initialized, claudeClient, aiProvider, onSave,
                 productInsights, overrides, analysisCache, now, call, ret, aiCalls, hist, calls>>

-----------------------------------------------------------------------------
(* Pure functions of the pipeline applied to inputs from bounded sets      *)

(* a behaviour applies one function to one input *)
NoProbe == [fn |-> "none"]

(* the hashtags a product page can carry, in page order *)
TagPool == << <<"c","a">>, <<"p","d">>, <<"a","1">>, <<"d","0">>, <<"c","_">>, <<"p","0">> >>

RECURSIVE HtmlOf(_)
HtmlOf(tags) ==
  IF tags = <<>> THEN <<"<">>
  ELSE <<"#">> \o tags[1] \o <<" ">> \o HtmlOf(Tail(tags))

Page(code, name, tags) ==
  [productCode |-> code, productName |-> name, productSaleStatus |-> TRUE,
   detailInfo |-> [present |-> TRUE, html |-> HtmlOf(tags)]]

(* products with 0..MaxTags hashtags, one whose two hashtags differ in     *)
(* letter case only, and the catalog's second product without a page and   *)
(* with a page of one hashtag                                              *)
ProbeProducts ==
  { Page("P1", <<"G","l","o">>, SubSeq(TagPool, 1, Min(n, Len(TagPool)))) : n \in 0..MaxTags }
  \cup { Page("P1", <<"G","l","o">>, << <<"c","a">>, <<"C","a">> >>), Products[2],
         Page("P2", Products[2].productName, <<TagPool[1]>>) }

(* candidate texts: every selection of these words, in this order *)
ProbeWords == << <<"C","a">>, <<"p","d">>, <<"a","1">>, <<"d","0">>,
                 <<"G","l","o">>, <<"d","e","w">>, <<"b","e","s","t">> >>

RECURSIVE TextOf(_, _)
TextOf(S, i) ==
  IF i > Len(ProbeWords) THEN <<>>
  ELSE IF i \in S
       THEN LET rest == TextOf(S, i + 1)
            IN IF rest = <<>> THEN ProbeWords[i] ELSE ProbeWords[i] \o <<" ">> \o rest
       ELSE TextOf(S, i + 1)

ProbeTexts == {TextOf(S, 1) : S \in SUBSET (1..Len(ProbeWords))}

(* candidates: one whose id the loaded collection holds, one new *)
ProbeCands == {Cand(id, t) : id \in {1, 9}, t \in ProbeTexts}

(* one candidate handled by the loop body of collectYouTubeReviews /       *)
(* collectInstagramReviews for one product, on the live collection         *)
ProbeMatch(platform, product, cand) ==
  /\ probe = NoProbe
  /\ probe' = [fn |-> "match", platform |-> platform, product |-> product, cand |-> cand,
               hashtags |-> extractHashtagsFromProduct(product), before |-> snsReviews,
               out |-> CandidateLoop(platform, <<cand>>, product,
                                     extractHashtagsFromProduct(product),
                                     [reviews |-> snsReviews, nextReviewId |-> nextReviewId,
                                      productCollectedCount |-> 0, totalCollectedCount |-> 0,
                                      capped |-> FALSE])]
  /\ UNCHANGED <<collectorVars, saveCalls, summarizerVars, saver>>

(* extractHashtagsFromProduct(product) on its own *)
ProbeExtract(product) ==
  /\ probe = NoProbe
  /\ probe' = [fn |-> "extract", product |-> product, out |-> extractHashtagsFromProduct(product)]
  /\ UNCHANGED <<collectorVars, saveCalls, summarizerVars, saver>>

-----------------------------------------------------------------------------
(* Query planner (services/youtube.js)                                     *)

(* the combinations cut down to the leading hashtags *)
getCombinations_Prefix(arr, size) ==
  IF size = 1 THEN [i \in 1..Len(arr) |-> <<arr[i]>>] ELSE <<SubSeq(arr, 1, size)>>

RECURSIVE getCombinations(_, _)
RECURSIVE CombinationsFrom(_, _, _)

(* the for loop of getCombinations, from index i (0-based) on *)
CombinationsFrom(arr, size, i) ==
  IF i > Len(arr) - size THEN <<>>
  ELSE LET head == arr[i + 1]
           tailCombos == getCombinations(SubSeq(arr, i + 2, Len(arr)), size - 1)
       IN [j \in 1..Len(tailCombos) |-> <<head>> \o tailCombos[j]]
          \o CombinationsFrom(arr, size, i + 1)

getCombinations(arr, size) ==
  IF size = 1 THEN [i \in 1..Len(arr) |-> <<arr[i]>>]
  ELSE IF size = Len(arr) THEN <<arr>>
  ELSE CombinationsFrom(arr, size, 0)

(* combo.join(' ') *)
RECURSIVE joinSpace(_)
joinSpace(combo) ==
  IF combo = <<>> THEN <<>>
  ELSE IF Len(combo) = 1 THEN combo[1]
  ELSE combo[1] \o <<" ">> \o joinSpace(Tail(combo))

ReviewSuffix == <<" ","r","e","v","i","e","w">>

(* the outer loop of generateHashtagSearchQueries, from size down to 1 *)
RECURSIVE QueriesOfSize(_, _)
QueriesOfSize(hashtags, size) ==
  IF size < 1 THEN <<>>
  ELSE LET combos == getCombinations(hashtags, size)
       IN [j \in 1..Len(combos) |-> joinSpace(combos[j]) \o ReviewSuffix]
          \o QueriesOfSize(hashtags, size - 1)

generateHashtagSearchQueries(hashtags, productName) ==
  LET queries == IF Len(hashtags) > 0 THEN QueriesOfSize(hashtags, Len(hashtags)) ELSE <<>>
  IN SetOrder(IF Len(queries) = 0
              THEN <<productName \o ReviewSuffix, productName \o <<" ","ri","byu">> >>
              ELSE queries)

(* hashtag lists as the extractor returns them: distinct tokens, any order *)
HashtagLists ==
  LET pool == {TagPool[i] : i \in 1..Min(MaxTags, Len(TagPool))}
  IN UNION { {h \in [1..n -> pool] : \A i, j \in 1..n : i # j => h[i] # h[j]} :
               n \in 0..Cardinality(pool) }

ProbeQueries(hashtags) ==
  /\ probe = NoProbe
  /\ probe' = [fn |-> "queries", hashtags |-> hashtags,
               out |-> generateHashtagSearchQueries(hashtags, Products[1].productName)]
  /\ UNCHANGED <<collectorVars, saveCalls, summarizerVars, saver>>

-----------------------------------------------------------------------------
(* Keyword summarizer (services/fedex.js): sentiment of a batch of reviews *)

(* KEYWORD_DICTIONARY.sentiment.keywords: entries of weight 1, on which    *)
(* the floating-point sums and quotients of the code are exact             *)
SentimentDictionary == <<
  [keyword |-> <<"l","o","v","e">>, weight |-> 1, sentiment |-> "positive"],
  [keyword |-> <<"b","e","s","t">>, weight |-> 1, sentiment |-> "positive"],
  [keyword |-> <<"h","y","p","e">>, weight |-> 1, sentiment |-> "positive"],
  [keyword |-> <<"f","a","v","e">>, weight |-> 1, sentiment |-> "positive"],
  [keyword |-> <<"h","a","u","l">>, weight |-> 1, sentiment |-> "neutral"],
  [keyword |-> <<"w","a","s","t","e">>, weight |-> 1, sentiment |-> "negative"] >>

Text(title, description) == [title |-> title, description |-> description]

(* extractKeywords(text).sentiment.found, as dictionary positions *)
extractKeywords(text) ==
  {k \in 1..Len(SentimentDictionary) :
     includes(toLowerCase(text), toLowerCase(SentimentDictionary[k].keyword))}

(* aggregateKeywords(reviews).sentiment.keywords: count and totalWeight    *)
(* per dictionary entry (an entry never found stays at 0)                  *)
RECURSIVE aggregateKeywords(_)
aggregateKeywords(reviews) ==
  IF reviews = <<>>
  THEN [k \in 1..Len(SentimentDictionary) |-> [count |-> 0, totalWeight |-> 0]]
  ELSE LET before == aggregateKeywords(SubSeq(reviews, 1, Len(reviews) - 1))
           review == reviews[Len(reviews)]
           found == extractKeywords(review.title \o <<" ">> \o review.description)
       IN [k \in 1..Len(SentimentDictionary) |->
             IF k \in found
             THEN [count |-> before[k].count + 1,
                   totalWeight |-> before[k].totalWeight + SentimentDictionary[k].weight]
             ELSE before[k]]

RECURSIVE SumUpTo(_, _)
SumUpTo(f, n) == IF n = 0 THEN 0 ELSE f[n] + SumUpTo(f, n - 1)

(* calculateSentiment(aggregated); 100 - positive/total*100 is             *)
(* negative/total*100, and Math.round rounds both halves up                *)
calculateSentiment(aggregated) ==
  LET n == Len(SentimentDictionary)
      positiveScore ==
        SumUpTo([k \in 1..n |-> IF SentimentDictionary[k].sentiment = "positive"
                                THEN aggregated[k].count * aggregated[k].totalWeight ELSE 0], n)
      negativeScore ==
        SumUpTo([k \in 1..n |-> IF SentimentDictionary[k].sentiment = "negative"
                                THEN aggregated[k].count * aggregated[k].totalWeight ELSE 0], n)
      totalCount == SumUpTo([k \in 1..n |-> aggregated[k].count], n)
      total == positiveScore + negativeScore
  IN [positiveRatio |-> IF total > 0 THEN RoundPercent(positiveScore, total) ELSE 50,
      negativeRatio |-> IF total > 0 THEN RoundPercent(negativeScore, total) ELSE 50,
      positiveCount |-> positiveScore,
      negativeCount |-> negativeScore,
      totalMentions |-> totalCount]

(* summarizeReviews(reviews).sentiment *)
summarizeReviews(reviews) ==
  IF Len(reviews) = 0
  THEN [positiveRatio |-> 50, negativeRatio |-> 50, positiveCount |-> 0,
        negativeCount |-> 0, totalMentions |-> 0]
  ELSE calculateSentiment(aggregateKeywords(reviews))

(* review texts of a batch *)
SentimentTexts == {
  Text(<<"l","o","v","e">>, <<>>),
  Text(<<"l","o","v","e"," ","b","e","s","t">>, <<"w","a","s","t","e">>),
  Text(<<"l","o","v","e"," ","b","e","s","t"," ","f","a","v","e">>, <<>>),
  Text(<<"l","o","v","e"," ","b","e","s","t"," ","f","a","v","e">>,
       <<"h","y","p","e"," ","w","a","s","t","e">>),
  Text(<<"w","a","s","t","e">>, <<>>),
  Text(<<"h","a","u","l">>, <<>>),
  Text(<<"x","y">>, <<>>) }

Batches == UNION { [1..n -> SentimentTexts] : n \in 0..MaxBatch }

ProbeSentiment(reviews) ==
  /\ probe = NoProbe
  /\ probe' = [fn |-> "sentiment", reviews |-> reviews, out |-> summarizeReviews(reviews)]
  /\ UNCHANGED <<collectorVars, saveCalls, summarizerVars, saver>>

-----------------------------------------------------------------------------
(* Persistence: the debounced saveData and the shutdown. Time is counted   *)
(* in slices of the timer's 500 ms; timer is the time left on the timeout  *)
(* _saveTimer names (negative: none pending). dirty and starts are         *)
(* history: a saveData call no _saveDataImpl run has started after, and    *)
(* the number of runs started.                                             *)

(* saveData(), called by a request handler or by the collector *)
saveData ==
  /\ saver.phase # "exited"
  /\ saver' = [saver EXCEPT !.timer = Slices, !.dirty = TRUE]
  /\ saveCalls' = 1
  /\ UNCHANGED <<collectorVars, summarizerVars, probe>>

(* a slice of time passes while the timeout is not yet due *)
Elapse ==
  /\ saver.phase # "exited"
  /\ saver.timer > 0
  /\ saver' = [saver EXCEPT !.timer = saver.timer - 1]
  /\ saveCalls' = 0
  /\ UNCHANGED <<collectorVars, summarizerVars, probe>>

(* the timeout is due: () => _saveDataImpl(), which begins _saveTimer = null *)
TimerFires ==
  /\ saver.phase # "exited"
  /\ saver.timer = 0
  /\ saver' = [saver EXCEPT !.timer = 0 - 1, !.dirty = FALSE,
                            !.starts = Min(saver.starts + 1, MaxStarts)]
  /\ saveCalls' = 0
  /\ UNCHANGED <<collectorVars, summarizerVars, probe>>

(* gracefulShutdown(signal) up to its first await or to process.exit(0);   *)
(* useMySQL is _useMySQL: with MySQL the save and the pool's close are     *)
(* awaited on I/O, with the JSON file nothing is                           *)
gracefulShutdown(useMySQL) ==
  /\ saver.phase = "up"
  /\ saver' = IF saver.timer >= 0
              THEN [saver EXCEPT !.timer = 0 - 1, !.dirty = FALSE,
                                 !.starts = Min(saver.starts + 1, MaxStarts),
                                 !.phase = IF useMySQL THEN "flush" ELSE "exited"]
              ELSE [saver EXCEPT !.phase = IF useMySQL THEN "close" ELSE "exited"]
  /\ saveCalls' = 0
  /\ UNCHANGED <<collectorVars, summarizerVars, probe>>

(* an await of gracefulShutdown settles: after the forced save the pool is *)
(* closed, after the close the process exits                               *)
ShutdownResumes ==
  /\ saver.phase \in {"flush", "close"}
  /\ saver' = [saver EXCEPT !.phase = IF saver.phase = "flush" THEN "close" ELSE "exited"]
  /\ saveCalls' = 0
  /\ UNCHANGED <<collectorVars, summarizerVars, probe>>

-----------------------------------------------------------------------------
(* Initial state: the modules are loaded, nothing was injected yet. The    *)
(* review array is what the data file held.                                *)

LoadedReviews == { <<NewReview(7, "YOUTUBE", 1, "APPROVED", "P1", 100)>> }

(* from: where the count of admin calls starts; MaxAdminOps - from of them *)
(* are followed                                                            *)
InitWith(store, from) ==
  /\ snsReviews = store
  /\ refsSet = FALSE
  /\ nextReviewId = INITIAL_NEXT_REVIEW_ID
  /\ runs = [q \in Slots |-> IdleRun]
  /\ lastRun = [p \in CollectPlatforms |-> NoLastRun]
  /\ saveCalls = 0
  /\ http = 0
  /\ started = 0
  /\ adminOps = from
  /\ initialized = FALSE
  /\ claudeClient = FALSE
  /\ aiProvider \in {"claude", "keyword"}
  /\ onSave = FALSE
  /\ productInsights = <<>>
  /\ aiFeedbackHistory = <<>>
  /\ overrides = <<>>
  /\ analysisCache = [p \in ProductCodes |-> NoEntry]
  /\ now = 0
  /\ call = NoCall
  /\ ret = NoRet
  /\ aiCalls = 0
  /\ hist = NoHist
  /\ fbCount = [p \in ProductCodes |-> 0]
  /\ calls = 0
  /\ probe = NoProbe
  /\ saver = [timer |-> 0 - 1, phase |-> "up", dirty |-> FALSE, starts |-> 0]

Init == \E store \in LoadedReviews : InitWith(store, 0)

Next ==
  \/ setReferences
  \/ \E platform \in {"ALL", "TIKTOK"} : TriggerCollection(1, platform)
  \/ \E f \in FeedsFor(runs[1], FALSE) : SearchReturn(1, f)
  \/ \E connected \in BOOLEAN : InstagramConnection(1, connected)
  \/ \E in \in ManualSome : ManualAdd(in, "P1")
  \/ \E id \in AdminIds : DeleteReview(id)
  \/ \E status \in {"rejected", "HIDDEN"} : UpdateStatus(7, status)
  \/ ApproveAll("")

(* AI_PROVIDER plays no part in collection: one value of it is followed *)
InitCollection == Init /\ aiProvider = "claude"

Spec == InitCollection /\ [][Next]_vars

(* the approved reviews a summary is asked for: their ids, in store order *)
SummaryArgs ==
  { [ids |-> <<>>, kf |-> TRUE], [ids |-> <<7>>, kf |-> FALSE], [ids |-> <<7, 100>>, kf |-> TRUE],
    [ids |-> <<100, 7>>, kf |-> TRUE] }

(* The summarizer: one call at a time, the clock, the model's answers *)
NextSummary ==
  \/ \E cfg \in InitConfigs : Initialize(cfg)
  \/ Tick
  \/ \E a \in SummaryArgs : GetSummary("P1", a.ids, a.kf)
  \/ \E ids \in {<<>>, <<7, 100>>} : TriggerReanalysis("P1", ids)
  \/ \E ans \in AiAnswers : AIReturn(ans)

SpecSummary == Init /\ [][NextSummary]_vars

(* The feedback history *)
NextFeedback ==
  \/ \E cfg \in InitConfigs : Initialize(cfg)
  \/ \E productCode \in {"P1", "P2"} : RecordFeedback(productCode)

SpecFeedback == Init /\ [][NextFeedback]_vars


(* Collection runs one at a time, with the 51-candidate result list, and   *)
(* the admin operations that change the membership of the collection       *)
NextRerun ==
  \/ setReferences
  \/ \E platform \in {"YOUTUBE", "INSTAGRAM"} : TriggerCollection(1, platform)
  \/ \E f \in FeedsFor(runs[1], TRUE) : SearchReturn(1, f)
  \/ \E connected \in BOOLEAN : InstagramConnection(1, connected)
  \/ ManualAdd([site |-> "instagram", id |-> 0], "P1")
  \/ \E id \in AdminIds : DeleteReview(id)

SpecRerun == InitCollection /\ [][NextRerun]_vars

(* Collection runs whose searches can fail *)
NextFailure ==
  \/ setReferences
  \/ \E platform \in {"ALL", "INSTAGRAM"} : TriggerCollection(1, platform)
  \/ \E f \in FeedsWithFailure(runs[1]) : SearchReturn(1, f)
  \/ \E connected \in BOOLEAN : InstagramConnection(1, connected)

SpecFailure == InitCollection /\ [][NextFailure]_vars

(* The same runs with what is scheduled for certain: the server calls      *)
(* setReferences when it starts. SearchReturn and InstagramConnection are  *)
(* the answers of the external services; callYouTubeAPI and                *)
(* callInstagramAPI arm no timer on https.get, so no step of the program   *)
(* stands in for an answer that does not come.                             *)
SpecLive == InitCollection /\ [][NextFailure]_vars /\ WF_vars(setReferences)

(* Summaries asked for while feedback is being recorded *)
NextFrame ==
  \/ \E cfg \in InitConfigs : Initialize(cfg)
  \/ \E ids \in {<<>>, <<7>>} : GetSummary("P1", ids, TRUE)
  \/ \E ans \in AiAnswers : AIReturn(ans)
  \/ \E productCode \in {"P1", "P2"} : RecordFeedback(productCode)

SpecFrame == InitCollection /\ [][NextFrame]_vars

(* Everything that persists through a save callback: a YouTube collection *)
(* run, the insight update of an analysis, the feedback history            *)
NextSave ==
  \/ setReferences
  \/ TriggerCollection(1, "YOUTUBE")
  \/ \E f \in FeedsFor(runs[1], FALSE) : SearchReturn(1, f)
  \/ \E cfg \in InitConfigs : Initialize(cfg)
  \/ GetSummary("P1", <<7>>, TRUE)
  \/ \E ans \in AiAnswers : AIReturn(ans)
  \/ RecordFeedback("P2")

SpecSave == InitCollection /\ [][NextSave]_vars

(* The scoring, sentiment and query functions on their own, applied after  *)
(* the manual additions of reviews                                         *)
NextPure ==
  \/ probe = NoProbe /\ setReferences
  \/ probe = NoProbe /\ \E platform \in CollectPlatforms, product \in ProbeProducts,
                            cand \in ProbeCands : ProbeMatch(platform, product, cand)
  \/ probe = NoProbe /\ \E reviews \in Batches : ProbeSentiment(reviews)
  \/ probe = NoProbe /\ \E hashtags \in HashtagLists : ProbeQueries(hashtags)
  \/ probe = NoProbe /\ \E product \in ProbeProducts : ProbeExtract(product)
  \/ probe = NoProbe /\ \E in \in ManualSome \cup {[site |-> "instagram", id |-> 1]} :
                            ManualAdd(in, "P1")

SpecPure == InitCollection /\ [][NextPure]_vars

(* Two triggerCollection calls in flight at once; the last of the feeds,   *)
(* a post that matches both active products, can come up in any search     *)
NextPair ==
  \/ setReferences
  \/ \E r \in Slots, platform \in CollectPlatforms : TriggerCollection(r, platform)
  \/ \E r \in Slots : \E f \in FeedsFor(runs[r], FALSE) \cup {Len(Feeds)} : SearchReturn(r, f)
  \/ \E r \in Slots : InstagramConnection(r, TRUE)

SpecPair == InitCollection /\ [][NextPair]_vars

(* the reviews a summary of productCode is asked for: their ids *)
ApprovedIds(productCode) ==
  LET approvedReviews == SelectSeq(snsReviews,
        LAMBDA r : r.status = "APPROVED" /\ HasProduct(r, productCode))
  IN [i \in 1..Len(approvedReviews) |-> approvedReviews[i].id]

InitCache == \E store \in LoadedReviews : InitWith(store, MaxAdminOps - 3) /\ aiProvider = "claude"

(* Summaries of the approved reviews of P1, asked for between manual       *)
(* additions and deletions                                                 *)
NextCache ==
  \/ setReferences
  \/ Initialize([client |-> TRUE, onSave |-> TRUE, overrides |-> <<>>, insights |-> <<>>])
  \/ Tick
  \/ GetSummary("P1", ApprovedIds("P1"), TRUE)
  \/ \E ans \in {a \in AiAnswers : a.kind = "reject" \/ a.tagsOk} : AIReturn(ans)
  \/ ManualAdd([site |-> "instagram", id |-> 0], "P1")
  \/ \E id \in AdminIds : DeleteReview(id)

SpecCache == InitCache /\ [][NextCache]_vars

(* The save timer under calls of saveData and a shutdown signal; time     *)
(* passes, a due timeout runs and the awaits of the shutdown settle        *)
NextSaver ==
  \/ setReferences
  \/ saveData
  \/ Elapse
  \/ TimerFires
  \/ \E useMySQL \in BOOLEAN : gracefulShutdown(useMySQL)
  \/ ShutdownResumes

SpecSaver ==
  /\ InitCollection /\ [][NextSaver]_vars
  /\ WF_vars(Elapse) /\ WF_vars(TimerFires) /\ WF_vars(ShutdownResumes)

(* A data file that holds a review of each status *)
MixedReviews ==
  << NewReview(7, "YOUTUBE", 1, "APPROVED", "P1", 100),
     NewReview(8, "INSTAGRAM", 2, "PENDING", "P1", 60),
     NewReview(9, "TIKTOK", 3, "REJECTED", "P2", 40) >>

InitStatus == InitWith(MixedReviews, 0) /\ aiProvider = "claude"

(* The moderation endpoints, beside a collection run and manual additions *)
NextStatus ==
  \/ setReferences
  \/ TriggerCollection(1, "YOUTUBE")
  \/ \E f \in FeedsFor(runs[1], FALSE) : SearchReturn(1, f)
  \/ \E id \in AdminIds \cup {5, 9}, status \in StatusInputs \cup Statuses : UpdateStatus(id, status)
  \/ \E productCode \in {"", "P2"} : ApproveAll(productCode)
  \/ \E in \in ManualSome : ManualAdd(in, "P1")

SpecStatus == InitStatus /\ [][NextStatus]_vars

-----------------------------------------------------------------------------
(* Claims *)

RunResults == {runs[r].results.youtube : r \in Slots} \cup {runs[r].results.instagram : r \in Slots}

(* C1: no two stored reviews share the same (platform, externalId) pair,   *)
(* after any sequence of collection runs, manual additions, deletions and  *)
(* status changes.                                                         *)
C1_NoDuplicateExternalId ==
  \A i, j \in 1..Len(snsReviews) :
    i # j => ~(snsReviews[i].platform = snsReviews[j].platform
              /\ snsReviews[i].externalId = snsReviews[j].externalId)

(* a run met candidates that were already stored, beside a manual addition *)
C1_Witness ==
  /\ runs[1].results.youtube.set /\ runs[1].results.youtube.collected > 0
  /\ \E i \in 1..Len(snsReviews) :
       snsReviews[i].platform = "INSTAGRAM" /\ snsReviews[i].status = "APPROVED"
  /\ \E i \in 1..Len(snsReviews) :
       snsReviews[i].platform = "INSTAGRAM" /\ snsReviews[i].status = "PENDING"

(* C2 as stated: a run that sees the results the previous run of the       *)
(* platform saw, with nothing else touching the collection in between,     *)
(* reports 0 collected and leaves the review count where that run left it. *)
C2_RerunAppendsNothing ==
  \A res \in RunResults :
    (res.set /\ res.success /\ res.rerun) =>
      (res.collected = 0 /\ res.endLen = res.prevLen)

(* C2 amended: the same, when the previous run did not stop at the         *)
(* per-product cap of 50.                                                  *)
C2_CleanRerunAppendsNothing ==
  \A res \in RunResults :
    (res.set /\ res.success /\ res.rerun /\ ~res.prevCapped) =>
      (res.collected = 0 /\ res.endLen = res.prevLen)

(* a second run after a run that had collected reviews below the cap *)
C2_Witness ==
  \E res \in RunResults :
    /\ res.set /\ res.success /\ res.rerun /\ ~res.prevCapped
    /\ res.prevLen >= 3
    /\ \E i \in 1..Len(snsReviews) : snsReviews[i].status = "PENDING"

-----------------------------------------------------------------------------
(* Claims on the summarizer *)

IdSet(ids) == {ids[i] : i \in 1..Len(ids)}
SameReviews(a, b) == IdSet(a) = IdSet(b) /\ Len(a) = Len(b)
GotSummary == ret.set /\ ret.op = "getSummary"
HasInsight(productCode) ==
  \E i \in 1..Len(productInsights) : productInsights[i].productCode = productCode
TheInsight(productCode) ==
  productInsights[CHOOSE i \in 1..Len(productInsights) : productInsights[i].productCode = productCode]
(* the AI tier gave no payload: not entered, or the analysis threw *)
AiTierSilent ==
  \/ ~ret.trace.available
  \/ Len(ret.trace.ids) = 0
  \/ ret.trace.ai \in {"threw", "threwLate"}

(* C3: when an override exists for the product, getSummary answers with    *)
(* provider "override" and the override's summary, whatever the AI         *)
(* availability, the cache, the stored insight and the reviews are.        *)
C3_OverrideWins ==
  (GotSummary /\ ret.trace.hadOverride) =>
    /\ ret.aiProvider = "override"
    /\ \E i \in 1..Len(overrides) :
         overrides[i].productCode = ret.productCode /\ ret.summary = overrides[i].summary

(* an override answered while the AI was available, reviews were approved, *)
(* and both a cache entry and an insight were stored for the product       *)
C3_Witness ==
  /\ GotSummary /\ ret.trace.hadOverride /\ ret.aiProvider = "override"
  /\ ret.trace.available /\ Len(ret.trace.ids) > 0
  /\ analysisCache[ret.productCode].present
  /\ HasInsight(ret.productCode)

TwoConsecutiveCalls ==
  /\ GotSummary /\ hist.set /\ hist.op = "getSummary"
  /\ hist.productCode = ret.productCode
  /\ SameReviews(hist.ids, ret.trace.ids)
  /\ ret.trace.startNow - hist.startNow <= CACHE_TTL

C5_AiFailureFallsThrough ==
  (GotSummary /\ ret.trace.ai \in {"threw", "threwLate"}) =>
    /\ ~ret.error
    /\ ret.aiProvider =
         IF ret.trace.hadInsight THEN "insights-cached"
         ELSE IF ret.trace.kf /\ Len(ret.trace.ids) > 0 THEN "keyword"
         ELSE "none"

(* an analysis failed with no insight stored: the keyword tier answered *)
C5_Witness ==
  /\ GotSummary /\ ret.trace.ai = "threw"
  /\ ~ret.trace.hadInsight
  /\ ret.aiProvider = "keyword" /\ ~ret.error

(* C6: the tiers are tried in the order override, AI, stored insight,      *)
(* keyword, empty: without override and with the AI tier silent, a stored  *)
(* insight is answered as "insights-cached" even when it was made from     *)
(* other reviews; the keyword tier answers only when no insight exists.    *)
C6_StrictPriority ==
  GotSummary =>
    /\ ret.trace.hadOverride => ret.aiProvider = "override"
    /\ ret.aiProvider \in {"claude", "claude-cached"} =>
         ~ret.trace.hadOverride /\ ~AiTierSilent
    /\ (~ret.trace.hadOverride /\ AiTierSilent /\ ret.trace.hadInsight) =>
         /\ ret.aiProvider = "insights-cached"
         /\ ret.summary = TheInsight(ret.productCode).summary
    /\ ret.aiProvider \in {"keyword", "none"} =>
         ~ret.trace.hadOverride /\ AiTierSilent /\ ~ret.trace.hadInsight
    /\ ret.aiProvider = "none" => ~(ret.trace.kf /\ Len(ret.trace.ids) > 0)

(* an insight made from other reviews answered after the analysis failed *)
C6_Witness ==
  /\ GotSummary /\ ret.aiProvider = "insights-cached"
  /\ ret.trace.ai = "threw" /\ ret.trace.kf
  /\ ~SameReviews(TheInsight(ret.productCode).reviewIds, ret.trace.ids)

(* C7 as stated: with no override, no approved review and no stored         *)
(* insight, getSummary answers the neutral empty payload: sentiment 50/50, *)
(* no hashtags, no error.                                                  *)
C7_EmptyPayloadNeutral ==
  (GotSummary /\ ~ret.trace.hadOverride /\ Len(ret.trace.ids) = 0 /\ ~ret.trace.hadInsight) =>
    /\ ret.sentiment = [positiveRatio |-> 50, negativeRatio |-> 50]
    /\ ret.hashtags = <<>>
    /\ ~ret.error

FeedbackOf(productCode) ==
  SelectSeq(aiFeedbackHistory, LAMBDA f : f.productCode = productCode)

(* C8: each product keeps at most 10 feedback records and they are its     *)
(* most recently recorded ones, in order; records of other products stay.  *)
C8_FeedbackBounded ==
  \A p \in ProductCodes :
    /\ Len(FeedbackOf(p)) = Min(fbCount[p], 10)
    /\ \A k \in 1..Len(FeedbackOf(p)) :
         FeedbackOf(p)[k].nth = fbCount[p] - Len(FeedbackOf(p)) + k

(* the 11th record of a product evicted its 1st; an older record of        *)
(* another product is still the head of the history                        *)
C8_Witness ==
  /\ fbCount["P1"] = 11 /\ fbCount["P2"] >= 1
  /\ Len(FeedbackOf("P1")) = 10
  /\ aiFeedbackHistory[1].productCode = "P2"

(* an analysis returned to its caller in this step *)
AnalysisSucceeds == call.pc = "await" /\ call'.pc = "idle" /\ ret'.trace.ai = "ok"
VersionsNeverDecrease ==
  \A p \in ProductCodes : VersionOf(productInsights', p) >= VersionOf(productInsights, p)
CacheWritten ==
  /\ analysisCache'[call.productCode].present
  /\ analysisCache'[call.productCode].timestamp = now
  /\ SameReviews(analysisCache'[call.productCode].ids, call.trace.ids)

(* C9 as stated: every successful analysis stores the product's insight    *)
(* with the version one above the previous (1 when none), writes the cache *)
(* entry and calls the save callback; versions never decrease.             *)
C9_AnalysisBumpsVersion ==
  [][/\ AnalysisSucceeds =>
          /\ VersionOf(productInsights', call.productCode)
               = VersionOf(productInsights, call.productCode) + 1
          /\ CacheWritten
          /\ saveCalls' = 1
     /\ VersionsNeverDecrease]_vars

(* C9 amended: every successful analysis writes the cache entry; when the  *)
(* answer carries updatedInsights it stores the insight with the version   *)
(* one above the previous (1 when none) and calls the save callback if one *)
(* was injected; otherwise the insights are left alone and nothing is      *)
(* saved; versions never decrease.                                         *)
C9_AnalysisBumpsVersionWhenUpdated ==
  [][/\ AnalysisSucceeds =>
          /\ CacheWritten
          /\ IF ret'.trace.updated
             THEN /\ VersionOf(productInsights', call.productCode)
                       = VersionOf(productInsights, call.productCode) + 1
                  /\ saveCalls' = IF onSave THEN 1 ELSE 0
             ELSE /\ productInsights' = productInsights
                  /\ saveCalls' = 0
     /\ VersionsNeverDecrease]_vars

(* a second analysis of a product replaced the insight the first one made *)
C9_Witness ==
  /\ ret.set /\ ret.trace.ai = "ok" /\ ret.trace.updated
  /\ ret.trace.aiAfter = 2
  /\ VersionOf(productInsights, ret.productCode) = 2
  /\ analysisCache[ret.productCode].present

AiTierEntered == GotSummary /\ ~ret.trace.hadOverride /\ ret.trace.available /\ Len(ret.trace.ids) > 0

(* C10: a cached analysis is answered only if the entry was written for    *)
(* the reviews now approved and is not older than the TTL; an entry for    *)
(* other reviews or an older one is a miss: the AI is called, no error.    *)
C10_CacheHitOnlyWhenValid ==
  /\ (GotSummary /\ ret.aiProvider = "claude-cached") =>
       /\ ret.trace.entryPresent
       /\ SameReviews(ret.trace.entryIds, ret.trace.ids)
       /\ ret.trace.entryAge <= CACHE_TTL
  /\ (AiTierEntered /\ ret.trace.entryPresent
        /\ (~SameReviews(ret.trace.entryIds, ret.trace.ids) \/ ret.trace.entryAge > CACHE_TTL)) =>
       /\ ret.trace.aiAfter = ret.trace.aiBefore + 1
       /\ ret.aiProvider # "claude-cached"
       /\ ~ret.error

(* an entry two TTLs old was passed over and the AI called afresh *)
C10_Witness ==
  /\ AiTierEntered /\ ret.trace.entryPresent
  /\ SameReviews(ret.trace.entryIds, ret.trace.ids)
  /\ ret.trace.entryAge > CACHE_TTL
  /\ ret.aiProvider = "claude"

-----------------------------------------------------------------------------
(* the reviews a probed candidate loop appended *)
ProbeAppended ==
  IF probe.fn = "match"
  THEN SubSeq(probe.out.reviews, Len(probe.before) + 1, Len(probe.out.reviews))
  ELSE <<>>

ScoresOf(reviews) ==
  UNION { {reviews[i].matchedProducts[j].matchScore : j \in 1..Len(reviews[i].matchedProducts)} :
            i \in 1..Len(reviews) }

(* C11: every stored matchScore lies within 0..100, whether the review was *)
(* scored by the hashtag-overlap policy, by the weighted-sum policy or     *)
(* added manually, for every number of product hashtags and every          *)
(* candidate text.                                                         *)
C11_MatchScoreInRange ==
  /\ ScoresOf(snsReviews) \subseteq 0..100
  /\ probe.fn = "match" => ScoresOf(probe.out.reviews) \subseteq 0..100

(* an Instagram post naming four hashtags, the product and a keyword is    *)
(* stored with the full score                                              *)
C11_Witness ==
  /\ probe.fn = "match" /\ probe.platform = "INSTAGRAM"
  /\ Len(probe.hashtags) >= 4
  /\ Len(ProbeAppended) = 1
  /\ ScoresOf(ProbeAppended) = {100}
  /\ \E i \in 1..Len(snsReviews) : snsReviews[i].platform = "INSTAGRAM"

-----------------------------------------------------------------------------
(* the mentions of one sentiment in a batch: one per review and keyword    *)
Mentions(reviews, sentiment) ==
  Cardinality({<<i, k>> \in (1..Len(reviews)) \X (1..Len(SentimentDictionary)) :
                 /\ SentimentDictionary[k].sentiment = sentiment
                 /\ includes(toLowerCase(reviews[i].title \o <<" ">> \o reviews[i].description),
                             SentimentDictionary[k].keyword)})

(* C12: a batch holding three positive mentions and one negative mention,  *)
(* all of the same weight, however they are spread over keywords and       *)
(* reviews, has positiveRatio 75 and negativeRatio 25.                     *)
C12_ThreeToOne ==
  (/\ probe.fn = "sentiment"
   /\ Mentions(probe.reviews, "positive") = 3
   /\ Mentions(probe.reviews, "negative") = 1)
  => probe.out.positiveRatio = 75 /\ probe.out.negativeRatio = 25

(* C13: the ratios are integers with negativeRatio = 100 - positiveRatio,  *)
(* positiveRatio being positive / (positive + negative) * 100 rounded, and *)
(* 50/50 when there is no sentiment signal.                                *)
C13_RatiosComplement ==
  probe.fn = "sentiment" =>
    LET o == probe.out
        total == o.positiveCount + o.negativeCount
    IN /\ o.positiveRatio \in 0..100
       /\ o.negativeRatio = 100 - o.positiveRatio
       /\ total > 0 => o.positiveRatio = RoundPercent(o.positiveCount, total)
       /\ total = 0 => o.positiveRatio = 50

-----------------------------------------------------------------------------
(* the query of a combination: its hashtags in list order, joined by a     *)
(* space, followed by the review qualifier                                 *)
RECURSIVE TermsOf(_, _, _)
TermsOf(hashtags, S, i) ==
  IF i > Len(hashtags) THEN <<>>
  ELSE IF i \in S THEN <<" ">> \o hashtags[i] \o TermsOf(hashtags, S, i + 1)
  ELSE TermsOf(hashtags, S, i + 1)

QueryOf(hashtags, S) ==
  Tail(TermsOf(hashtags, S, 1)) \o <<" ","r","e","v","i","e","w">>

Spaces(q) == Cardinality({i \in 1..Len(q) : q[i] = " "})

(* C14: for n distinct hashtags the planner emits exactly 2^n - 1 distinct *)
(* queries, one per non-empty combination of hashtags, ordered by          *)
(* combination size from n down to 1, each the combination's terms joined  *)
(* by a space followed by the review qualifier; for [a, b, c] these are    *)
(* abc, ab, ac, bc, a, b, c.                                               *)
C14_AllCombinations ==
  (probe.fn = "queries" /\ Len(probe.hashtags) >= 1) =>
    LET h == probe.hashtags
        n == Len(h)
        q == probe.out
    IN /\ Len(q) = 2^n - 1
       /\ \A i, j \in 1..Len(q) : i # j => q[i] # q[j]
       /\ \A S \in (SUBSET (1..n)) \ {{}} : \E i \in 1..Len(q) : q[i] = QueryOf(h, S)
       /\ \A i, j \in 1..Len(q) : i < j => Spaces(q[i]) >= Spaces(q[j])
       /\ n = 3 => q = << QueryOf(h, {1, 2, 3}), QueryOf(h, {1, 2}), QueryOf(h, {1, 3}),
                          QueryOf(h, {2, 3}), QueryOf(h, {1}), QueryOf(h, {2}),
                          QueryOf(h, {3}) >>

(* three hashtags planned: seven queries, the full combination first *)
C14_Witness ==
  /\ probe.fn = "queries"
  /\ probe.hashtags = << <<"p","d">>, <<"c","a">>, <<"a","1">> >>
  /\ Len(probe.out) = 7
  /\ probe.out[1] = <<"p","d"," ","c","a"," ","a","1"," ","r","e","v","i","e","w">>

-----------------------------------------------------------------------------
(* a step in which the collect function of slot 1 returns *)
CollectReturns ==
  /\ InFlight(runs[1]) /\ runs[1].phase # "igconn"
  /\ runs'[1].phase # runs[1].phase

CollectResult ==
  IF runs[1].phase = "yt" THEN runs'[1].results.youtube ELSE runs'[1].results.instagram

(* C15: every review a collection run inserts has status PENDING when it   *)
(* is inserted, and the injected save callback is invoked after every      *)
(* accepted mutation: the return of a collection run that appended at      *)
(* least one review, every recordFeedback call that stored a record and    *)
(* every insight update come with a save-callback invocation before the    *)
(* operation returns.                                                      *)
C15_SaveAfterMutation ==
  [][ /\ (InFlight(runs[1]) /\ Len(snsReviews') > Len(snsReviews)) =>
           \A i \in (Len(snsReviews) + 1)..Len(snsReviews') : snsReviews'[i].status = "PENDING"
      /\ (CollectReturns /\ CollectResult.collected > 0) => saveCalls' = 1
      /\ (onSave /\ aiFeedbackHistory' # aiFeedbackHistory) => saveCalls' = 1
      /\ (onSave /\ call.pc = "await" /\ productInsights' # productInsights) => saveCalls' = 1
    ]_vars

(* a run that stored reviews has just returned and saved, after a feedback *)
(* record and an insight update were stored with a callback injected       *)
C15_Witness ==
  /\ runs[1].phase = "done" /\ runs[1].results.youtube.collected > 0
  /\ saveCalls = 1
  /\ runs[1].results.youtube.endLen > runs[1].results.youtube.startLen
  /\ snsReviews[Len(snsReviews)].status = "PENDING"
  /\ onSave /\ aiFeedbackHistory # <<>>
  /\ ret.trace.updated

-----------------------------------------------------------------------------
(* a step of the analysis path: getSummary is entered, or the model's      *)
(* answer is handled                                                       *)
AnalysisStep == calls' = calls + 1 \/ (call.pc = "await" /\ call'.pc = "idle")

Records(history) == {history[i] : i \in 1..Len(history)}

(* C16: the analysis path (getSummary with all its tiers) never changes    *)
(* the review collection and never adds, removes or changes a feedback     *)
(* record; a feedback record disappears only by the trim rule of           *)
(* recordFeedback, which drops the oldest record of the product recorded   *)
(* for once it holds more than 10.                                         *)
C16_AnalysisReadsOnly ==
  [][ /\ AnalysisStep => (snsReviews' = snsReviews /\ aiFeedbackHistory' = aiFeedbackHistory)
      /\ \A f \in Records(aiFeedbackHistory) \ Records(aiFeedbackHistory') :
           /\ fbCount'[f.productCode] = fbCount[f.productCode] + 1
           /\ Cardinality({g \in Records(aiFeedbackHistory) : g.productCode = f.productCode}) = 10
           /\ \A g \in Records(aiFeedbackHistory) : g.productCode = f.productCode => f.nth <= g.nth
    ]_vars

(* an analysis has answered while the history held records of two products *)
(* and the trim rule had already dropped the first record of P1            *)
C16_Witness ==
  /\ ret.trace.ai = "ok" /\ ret.trace.aiAfter > ret.trace.aiBefore
  /\ fbCount["P1"] > 10 /\ fbCount["P2"] > 0
  /\ Len(aiFeedbackHistory) > 10
  /\ \A f \in Records(aiFeedbackHistory) : f.productCode = "P1" => f.nth > 1

-----------------------------------------------------------------------------
(* the searches of the current collect function that failed *)
FailedSearches(run) == {i \in 1..Len(run.seen) : Feeds[run.seen[i]].err}

(* a step in which the search for the product at hand fails *)
SearchFails ==
  /\ runs[1].phase \in {"yt", "ig"}
  /\ Len(runs'[1].seen) = Len(runs[1].seen) + 1
  /\ Len(runs'[1].seen) \in FailedSearches(runs'[1])

(* C17: a failure of the external search or detail call for one product    *)
(* is contained: the run goes on with the next active product, the reviews *)
(* appended for earlier products stay in the collection, and the run still *)
(* returns success with the count of what it collected.                    *)
C17_FailureContained ==
  [][ /\ SearchFails =>
           /\ snsReviews' = snsReviews
           /\ runs'[1].total = runs[1].total
           /\ runs[1].idx < Len(activeProducts) =>
                 (runs'[1].phase = runs[1].phase /\ runs'[1].idx = runs[1].idx + 1)
           /\ runs[1].idx = Len(activeProducts) => CollectReturns
      /\ (CollectReturns /\ FailedSearches(runs'[1]) # {}) =>
           /\ CollectResult.set /\ CollectResult.success
           /\ CollectResult.collected = runs[1].total + Len(snsReviews') - Len(snsReviews)
           /\ CollectResult.collected = CollectResult.endLen - CollectResult.startLen
    ]_vars

(* the Instagram search failed for the second product after a post of the  *)
(* first was stored: the run returned success with the one review          *)
C17_Witness ==
  /\ runs[1].phase = "done"
  /\ runs[1].seen = <<2, 5>>
  /\ runs[1].results.instagram.success
  /\ runs[1].results.instagram.collected = 1
  /\ snsReviews[Len(snsReviews)].platform = "INSTAGRAM"

-----------------------------------------------------------------------------
(* C18: every external call carries a bounded timeout and a timeout is     *)
(* handled like any other failure, so a triggerCollection run eventually   *)
(* returns even when an external service never answers.                    *)
C18_RunEventuallyReturns == InFlight(runs[1]) ~> (runs[1].phase = "done")

-----------------------------------------------------------------------------
(* a YouTube candidate, not stored yet, handled for a product that has     *)
(* hashtags                                                                *)
OverlapCase ==
  /\ probe.fn = "match" /\ probe.platform = "YOUTUBE"
  /\ Len(probe.hashtags) >= 1
  /\ ~\E i \in 1..Len(probe.before) :
        probe.before[i].platform = "YOUTUBE" /\ probe.before[i].externalId = probe.cand.extId

CandText == probe.cand.title \o <<" ">> \o probe.cand.description

(* k: the product's hashtags found in the text, letter case aside *)
FoundTags ==
  Cardinality({i \in 1..Len(probe.hashtags) :
                 includes(toLowerCase(CandText), toLowerCase(probe.hashtags[i]))})

StoredWith(score) ==
  /\ Len(ProbeAppended) = 1
  /\ ProbeAppended[1].platform = "YOUTUBE"
  /\ ProbeAppended[1].externalId = probe.cand.extId
  /\ ProbeAppended[1].matchedProducts =
       <<[productCode |-> probe.product.productCode, matchScore |-> score]>>

Skipped == probe.out.reviews = probe.before /\ probe.out.totalCollectedCount = 0

(* C19 as stated: with k >= 1 of the n hashtags found the candidate is     *)
(* accepted with score (k / n) * 100; with none found it is accepted only  *)
(* if the product name appears verbatim in its text, with score 80; every  *)
(* other candidate is skipped and the store is unchanged.                  *)
C19_OverlapExact ==
  OverlapCase =>
    IF FoundTags >= 1
    THEN \E score \in 0..100 : /\ score * Len(probe.hashtags) = FoundTags * 100
                                /\ StoredWith(score)
    ELSE IF includes(CandText, probe.product.productName)
         THEN StoredWith(80)
         ELSE Skipped

(* C19: with k >= 1 of the n hashtags found the candidate is accepted with *)
(* score (k / n) * 100 rounded to the nearest integer; with none found it  *)
(* is accepted, with score 80, exactly if the trimmed product name appears *)
(* in its text, letter case aside; every other candidate is skipped and    *)
(* the store is unchanged.                                                 *)
C19_OverlapRounded ==
  OverlapCase =>
    IF FoundTags >= 1
    THEN StoredWith(RoundPercent(FoundTags, Len(probe.hashtags)))
    ELSE IF includes(toLowerCase(CandText), toLowerCase(trim(probe.product.productName)))
         THEN StoredWith(80)
         ELSE Skipped

(* two of three hashtags found: stored with 67 *)
C19_Witness ==
  /\ OverlapCase
  /\ Len(probe.hashtags) = 3 /\ FoundTags = 2
  /\ StoredWith(67)

-----------------------------------------------------------------------------
(* an Instagram post handled for a product *)
WeightedCase == probe.fn = "match" /\ probe.platform = "INSTAGRAM"

Caption == toLowerCase(probe.cand.title)

(* min(60, 20 * matched hashtags) + 30 for the name + 10 for a keyword *)
WeightedSum ==
  Min(60, 20 * Cardinality({i \in 1..Len(probe.hashtags) :
                              includes(Caption, toLowerCase(probe.hashtags[i]))}))
  + (IF includes(Caption, stripSpaces(toLowerCase(probe.product.productName))) THEN 30 ELSE 0)
  + (IF \E kw \in ReviewKeywords : includes(Caption, kw) THEN 10 ELSE 0)

AlreadyStored ==
  \E i \in 1..Len(probe.before) :
    probe.before[i].platform = "INSTAGRAM" /\ probe.before[i].externalId = probe.cand.extId

-----------------------------------------------------------------------------
(* C21: the extractor returns the hashtag tokens of the decoded page       *)
(* without the leading #, de-duplicated case-insensitively (tokens that    *)
(* differ in letter case only yield one entry) in first-seen order, and    *)
(* returns an empty list when the page is absent.                          *)
C21_CaseInsensitiveDedup ==
  probe.fn = "extract" =>
    LET tokens == MatchHashtags(probe.product.detailInfo.html, 1)
        out == probe.out
    IN IF ~probe.product.detailInfo.present THEN out = <<>>
       ELSE /\ \A i \in 1..Len(out) : out[i] # <<>> /\ out[i][1] # "#"
            /\ \A i, j \in 1..Len(out) : i # j => toLowerCase(out[i]) # toLowerCase(out[j])
            /\ \A t \in 1..Len(tokens) :
                 \E i \in 1..Len(out) : toLowerCase(out[i]) = toLowerCase(tokens[t])
            /\ \A i, j \in 1..Len(out) : i < j =>
                 \E t \in 1..Len(tokens) :
                   /\ tokens[t] = out[i]
                   /\ \A u \in 1..Len(tokens) : tokens[u] = out[j] => t < u

-----------------------------------------------------------------------------
(* the status a request names, letter case aside; "none" for anything else *)
StatusNamed(status) ==
  CASE status \in {"PENDING", "APPROVED", "REJECTED"} -> status
    [] status = "rejected" -> "REJECTED"
    [] OTHER -> "none"

StoredAt(id) == {i \in 1..Len(snsReviews) : snsReviews[i].id = id}

StatusStep(id, status) ==
  IF StoredAt(id) = {} \/ StatusNamed(status) = "none"
  THEN snsReviews' = snsReviews /\ http' \in {400, 404}
  ELSE LET i == CHOOSE k \in StoredAt(id) : \A l \in StoredAt(id) : k <= l
       IN snsReviews' = [snsReviews EXCEPT ![i].status = StatusNamed(status)] /\ http' = 200

(* C22: every stored review's status is PENDING, APPROVED or REJECTED; a   *)
(* status update moves the review it names to the status it names, from    *)
(* whichever of the three it had; a request that names an unknown id or    *)
(* any other status is rejected and leaves the collection unchanged.       *)
C22_StatusTransitions ==
  [][/\ \A i \in 1..Len(snsReviews') : snsReviews'[i].status \in {"PENDING", "APPROVED", "REJECTED"}
     /\ \A id \in AdminIds \cup {5, 9}, status \in StatusInputs \cup Statuses :
          UpdateStatus(id, status) => StatusStep(id, status)]_vars

(* the review the data file held as REJECTED was moved back to PENDING *)
C22_Witness ==
  /\ http = 200
  /\ \E i \in 1..Len(snsReviews) : snsReviews[i].id = 9 /\ snsReviews[i].status = "PENDING"
  /\ \E i \in 1..Len(MixedReviews) : MixedReviews[i].id = 9 /\ MixedReviews[i].status = "REJECTED"

-----------------------------------------------------------------------------
SameKey(a, b) == a.platform = b.platform /\ a.externalId = b.externalId

(* run r was handed a search result that holds the post of review rv *)
WasOffered(r, rv) ==
  /\ runs[r].platform = rv.platform
  /\ \E i \in 1..Len(runs[r].seen) : \E j \in 1..Len(Feeds[runs[r].seen[i]].items) :
       Feeds[runs[r].seen[i]].items[j].extId = rv.externalId

(* C23: two collection calls for the same platform, in flight together and *)
(* interleaved at their awaits, never leave two stored reviews with the    *)
(* same (platform, externalId).                                            *)
C23_ConcurrentRunsNoDuplicate ==
  (\A r \in Slots : runs[r].phase # "idle") =>
    \A i \in 1..Len(snsReviews) : \A j \in 1..Len(snsReviews) :
      SameKey(snsReviews[i], snsReviews[j]) => i = j

(* both calls were offered the post of a review that one of them stored *)
C23_Witness ==
  \E k \in 1..Len(snsReviews) :
    /\ snsReviews[k].status = "PENDING"
    /\ \A r \in Slots : WasOffered(r, snsReviews[k]) /\ runs[r].idx = 2

-----------------------------------------------------------------------------
(* C24: after any interleaving of collection inserts, manual additions and *)
(* deletions, no two stored reviews have the same numeric id.              *)
C24_UniqueIds ==
  \A i \in 1..Len(snsReviews) : \A j \in 1..Len(snsReviews) :
    snsReviews[i].id = snsReviews[j].id => i = j

-----------------------------------------------------------------------------
(* the time a review added by hand without an id in its URL was made at *)
MadeAt(rv) == 0 - 1 - rv.externalId

(* C25: whenever getSummary answers "claude-cached", the cached payload    *)
(* came from an analysis of exactly the reviews now approved for the       *)
(* product; in particular no review approved now was made after it.        *)
C25_CacheOfApprovedReviews ==
  [][(ret' # ret /\ ret'.aiProvider = "claude-cached") =>
       \A i \in 1..Len(snsReviews) :
         (/\ snsReviews[i].status = "APPROVED"
          /\ HasProduct(snsReviews[i], ret'.productCode)
          /\ snsReviews[i].externalId < 0)
         => MadeAt(snsReviews[i]) <= ret'.trace.cachedAt]_vars

-----------------------------------------------------------------------------
(* C26: when an analysis call fails (at the request, at the parsing of the *)
(* answer or in the handling of the parsed result), the product insights,  *)
(* the cache and the persisted state are what they were before the call.   *)
C26_FailedAnalysisChangesNothing ==
  [][(call.pc = "await" /\ call'.pc = "idle" /\ ret'.trace.ai \in {"threw", "threwLate"}) =>
       /\ productInsights' = productInsights
       /\ analysisCache' = analysisCache
       /\ saveCalls' = 0]_vars

-----------------------------------------------------------------------------
(* C27: at most one save timer is pending, every saveData call is          *)
(* eventually followed by a _saveDataImpl run that starts after the call,  *)
(* and a shutdown with a pending timer runs the save before the exit.      *)
C27_EverySaveCallIsFollowedByARun == saver.dirty ~> ~saver.dirty

-----------------------------------------------------------------------------
(* C28: triggerReanalysis changes no state and calls no AI when the        *)
(* provider is unavailable or the review list is empty; otherwise it       *)
(* removes the cache entry before the AI call, so that after a successful  *)
(* re-analysis the cached fingerprint is that of the reviews passed in,    *)
(* and after a failed one there is no cache entry and the call returns     *)
(* success = false instead of raising.                                     *)
C28_ReanalysisCache ==
  [][/\ (call.pc = "idle" /\ ret' # ret /\ ret'.op = "triggerReanalysis") =>
          /\ ~ret'.success /\ ~ret'.error
          /\ UNCHANGED <<analysisCache, productInsights, aiFeedbackHistory, aiCalls>>
          /\ saveCalls' = 0
     /\ (call.pc = "idle" /\ call'.pc = "await" /\ call'.op = "triggerReanalysis") =>
          ~analysisCache'[call'.productCode].present
     /\ (call.pc = "await" /\ call.op = "triggerReanalysis" /\ call'.pc = "idle") =>
          /\ ~ret'.error
          /\ IF ret'.success
             THEN /\ analysisCache'[call.productCode].present
                  /\ analysisCache'[call.productCode].analyzedReviewIds = join(sort(call.trace.ids))
             ELSE ~analysisCache'[call.productCode].present]_vars

-----------------------------------------------------------------------------
(* the reviews a step appended *)
Added == SubSeq(snsReviews', Len(snsReviews) + 1, Len(snsReviews'))

(* run r took the search result of one product in this step *)
TookProduct(r) == runs[r].phase \in {"yt", "ig"} /\ Len(runs'[r].seen) > Len(runs[r].seen)

(* the results of the collect functions that returned in this step *)
Returned(r) ==
  {res \in {[plat |-> "YOUTUBE", was |-> runs[r].results.youtube, is |-> runs'[r].results.youtube],
            [plat |-> "INSTAGRAM", was |-> runs[r].results.instagram, is |-> runs'[r].results.instagram]} :
     ~res.was.set /\ res.is.set /\ runs'[r].phase # "idle"}

(* C29: a collection run handles active products only and appends at most  *)
(* 50 reviews per product; with no concurrent operation the collected      *)
(* count it returns is the increase of the stored review count; a run      *)
(* before the references are set returns success = false with 0 collected  *)
(* and changes nothing.                                                    *)
C29_RunBounds ==
  [][\A r \in Slots :
       /\ TookProduct(r) =>
            /\ Len(Added) <= 50
            /\ \E k \in 1..Len(Products) :
                 /\ Products[k].productSaleStatus = TRUE
                 /\ \A i \in 1..Len(Added) : HasProduct(Added[i], Products[k].productCode)
       /\ \A res \in Returned(r) :
            /\ (res.is.success /\ lastRun'[res.plat].valid) =>
                 res.is.collected = Len(snsReviews') - res.is.startLen
            /\ ~refsSet => /\ ~res.is.success /\ res.is.collected = 0
                           /\ UNCHANGED <<snsReviews, nextReviewId>> /\ saveCalls' = 0]_vars

(* a run nothing interfered with met the cap of one product and returned   *)
(* the 50 reviews it stored                                                *)
C29_Witness ==
  \E r \in Slots :
    /\ runs[r].phase = "done" /\ runs[r].capped /\ lastRun["YOUTUBE"].valid
    /\ runs[r].results.youtube.success
    /\ runs[r].results.youtube.collected >= 50
    /\ runs[r].results.youtube.collected = Len(snsReviews) - runs[r].results.youtube.startLen

-----------------------------------------------------------------------------
(* C30: a review appended by a collection run carries exactly one          *)
(* matchedProducts entry, that of the product being handled when the post  *)
(* was first accepted; a post that also matches a later product is skipped *)
(* as already collected and its matchedProducts stay as they were.         *)
C30_OneMatchedProduct ==
  [][\A r \in Slots : TookProduct(r) =>
       /\ SubSeq(snsReviews', 1, Len(snsReviews)) = snsReviews
       /\ \A i \in 1..Len(Added) :
            /\ Len(Added[i].matchedProducts) = 1
            /\ Added[i].matchedProducts[1].productCode = activeProducts[runs[r].idx].productCode]_vars

(* the post that matches both products came up in the searches of both:    *)
(* it is stored once, with the first product alone                         *)
C30_Witness ==
  \E r \in Slots : \E k \in 1..Len(snsReviews) :
    /\ runs[r].seen = <<Len(Feeds), Len(Feeds)>>
    /\ snsReviews[k].externalId = 4 /\ snsReviews[k].platform = PhasePlatform(runs[r])
    /\ snsReviews[k].matchedProducts = <<[productCode |-> "P1", matchScore |-> snsReviews[k].matchedProducts[1].matchScore]>>
    /\ Decide(snsReviews[k].platform, Cand(4, TxtShared), Products[2], <<>>).isMatched
====
